---- MODULE Spec2Model ----
(***************************************************************************)
(* A model of nautilus_trader's Position aggregate                         *)
(* (nautilus_trader/model/position.pyx): the constructor and apply(fill),  *)
(* with the helpers they call and the PnL queries; and of the bar builder  *)
(* and the tick, volume, value and time bar aggregators of the same file.  *)
(* Spec is the behaviour of one position, SpecBars that of one aggregator. *)
(* SpecBook is the behaviour of one simulated L1 order book                *)
(* (nautilus_trader/model/orderbook/simulated.pyx) and SpecOrders that of  *)
(* one stop-limit order (nautilus_trader/model/orders/stop_limit.pyx).     *)
(* SpecTimer is the behaviour of the clock and the build timer of one time *)
(* aggregator (get_start_time).                                            *)
(*                                                                         *)
(* Numbers.  Decimal values (average prices, points, return, PnL) are      *)
(* modelled as exact rationals [n |-> numerator, d |-> denominator] in     *)
(* lowest terms with d > 0.  Prices, quantities, commissions and           *)
(* timestamps are integers (price and size precision 0).  None is the      *)
(* pair with d = 0.                                                        *)
(***************************************************************************)
EXTENDS Integers, Sequences, FiniteSets, TLC

\* ---------------------------------------------------------------- bounds

\* The largest number of fills one position receives.
MaxFills == 3

\* The largest number of calls (ticks, partial bars, timer events) one bar
\* aggregator receives.
MaxCalls == 3

\* The largest number of passes the splitting loop of a volume or value
\* aggregator is followed through for one update.
MaxIterations == 4


\* ------------------------------------------------------------ input sets

OrderSides == {"BUY", "SELL"}
Quantities == {5, 8}
Prices == {10, 12}
Currencies == {"USD", "BTC"}
CommissionAmounts == {1}

\* Ticks: prices and sizes (precision 0), and the bar specifications.
TickPrices == {1, 3}
TickSizes == {1, 4}
AggregatorKinds == {"TICK", "VOLUME", "VALUE", "TIME"}
Steps == [TICK |-> {1, 2}, VOLUME |-> {3}, VALUE |-> {10}, TIME |-> {2}]

\* Well-formed partial bars: low <= open, close <= high and volume >= 0.
PartialBars ==
    { [open |-> 2, high |-> 3, low |-> 1, close |-> 2, volume |-> 1, ts_init |-> 1],
      [open |-> 2, high |-> 2, low |-> 2, close |-> 2, volume |-> 0, ts_init |-> 0] }

\* Instruments: a standard one (quoted in USD) and an inverse one.
Instruments ==
    { [is_inverse |-> FALSE, multiplier |-> 2, quote_currency |-> "USD", base_currency |-> "BTC"],
      [is_inverse |-> TRUE, multiplier |-> 1, quote_currency |-> "USD", base_currency |-> "BTC"] }

\* ------------------------------------------------------ Decimal arithmetic

Abs(x) == IF x < 0 THEN -x ELSE x

RECURSIVE GCD(_, _)
GCD(a, b) == IF b = 0 THEN a ELSE GCD(b, a % b)

None == [n |-> 0, d |-> 0]

Dec(n, d) ==
    LET g == GCD(Abs(n), d)
    IN  [n |-> n \div g, d |-> d \div g]

DecInt(i) == [n |-> i, d |-> 1]
DecAdd(a, b) == Dec(a.n * b.d + b.n * a.d, a.d * b.d)
DecNeg(a) == [n |-> -a.n, d |-> a.d]
DecSub(a, b) == DecAdd(a, DecNeg(b))
DecMul(a, b) == Dec(a.n * b.n, a.d * b.d)
\* b # 0 wherever the program divides (prices and quantities are positive)
DecDiv(a, b) == IF b.n < 0 THEN Dec(-(a.n * b.d), a.d * (-b.n)) ELSE Dec(a.n * b.d, a.d * b.n)
DecInv(a) == DecDiv(DecInt(1), a)

\* ---------------------------------------------------------------- state

VARIABLES position, raised

vars == <<position, raised>>

\* A bar aggregator, the number of calls made on it so far, and what it was
\* fed: the number of ticks that came in order (ts_event not before the
\* builder's ts_last) with their total size, the number that came late, and
\* the number of bars emitted before the partial bar was set (-1: not set).
VARIABLES aggregator, calls, fed

barvars == <<aggregator, calls, fed>>

\* A simulated L1 order book and the tick last applied to it.
VARIABLES book, applied

bookvars == <<book, applied>>

\* A stop-limit order and the error the last call on it raised ("none" if it
\* returned).
VARIABLES order, order_error

ordervars == <<order, order_error>>

\* The clock a time aggregator reads, with the bar specification it was given,
\* and the clock's timer of that aggregator.
VARIABLES clock, build_timer

timervars == <<clock, build_timer>>

allvars == <<vars, barvars, bookvars, ordervars, timervars>>

\* The value of a variable whose object the behaviour at hand does not create.
Absent == << >>

\* ------------------------------------------------------------ collaborators

\* Money(value, currency): an amount in a currency.
Money(value, currency) == [amount |-> value, currency |-> currency]

\* Instrument.get_cost_currency(): base currency if inverse, else quote currency.
get_cost_currency(instrument) ==
    IF instrument.is_inverse THEN instrument.base_currency ELSE instrument.quote_currency

\* The fills a venue can report with execution id `id` at time `ts`.
Fills(id, ts) ==
    [ execution_id : {id},
      order_side : OrderSides,
      last_qty : Quantities,
      last_px : Prices,
      commission : {Money(DecInt(a), c) : a \in CommissionAmounts, c \in Currencies},
      ts_event : {ts} ]

\* ---------------------------------------------------------------- Position

side_from_order_side_c(side) == IF side = "BUY" THEN "LONG" ELSE "SHORT"

\* _calculate_points that takes every position for a LONG one.
_calculate_points_LongOnly(self, avg_px_open, avg_px_close) ==
    IF self.side = "FLAT" THEN DecInt(0) ELSE DecSub(avg_px_close, avg_px_open)

_calculate_points(self, avg_px_open, avg_px_close) ==
    IF self.side = "LONG" THEN DecSub(avg_px_close, avg_px_open)
    ELSE IF self.side = "SHORT" THEN DecSub(avg_px_open, avg_px_close)
    ELSE DecInt(0)

_calculate_points_inverse(self, avg_px_open, avg_px_close) ==
    IF self.side = "LONG" THEN DecSub(DecInv(avg_px_open), DecInv(avg_px_close))
    ELSE IF self.side = "SHORT" THEN DecSub(DecInv(avg_px_close), DecInv(avg_px_open))
    ELSE DecInt(0)

_calculate_return(self, avg_px_open, avg_px_close) ==
    DecDiv(_calculate_points(self, avg_px_open, avg_px_close), avg_px_open)

_calculate_pnl(self, avg_px_open, avg_px_close, quantity) ==
    IF self.is_inverse
    THEN DecMul(DecInt(quantity * self.multiplier),
                _calculate_points_inverse(self, avg_px_open, avg_px_close))
    ELSE DecMul(DecInt(quantity * self.multiplier),
                _calculate_points(self, avg_px_open, avg_px_close))

_calculate_avg_px(qty, avg_px, fill) ==
    LET start_cost == DecMul(avg_px, DecInt(qty))
        event_cost == DecInt(fill.last_px * fill.last_qty)
        cum_qty == qty + fill.last_qty
    IN  DecDiv(DecAdd(start_cost, event_cost), DecInt(cum_qty))

_calculate_avg_px_open_px(self, fill) ==
    _calculate_avg_px(Abs(self.net_qty), self.avg_px_open, fill)

\* `not self.avg_px_close` is true of None and of a zero Decimal
_calculate_avg_px_close_px(self, fill) ==
    IF self.avg_px_close = None \/ self.avg_px_close.n = 0
    THEN DecInt(fill.last_px)
    ELSE LET close_qty == IF self.side = "LONG" THEN self._sell_qty ELSE self._buy_qty
         IN  _calculate_avg_px(close_qty, self.avg_px_close, fill)

\* InitialRealizedPnl without the currency test: every commission is charged.
InitialRealizedPnl_AnyCurrency(self, fill) == DecNeg(fill.commission.amount)

\* The realized PnL a fill starts from: minus its commission when that is
\* in the cost currency, else zero.
InitialRealizedPnl(self, fill) ==
    IF fill.commission.currency = self.cost_currency
    THEN DecNeg(fill.commission.amount)
    ELSE DecInt(0)

\* The closing branch shared by the two fill handlers.
ClosingFill(self, fill) ==
    LET avg_px_close == _calculate_avg_px_close_px(self, fill)
    IN  [self EXCEPT
            !.avg_px_close = avg_px_close,
            !.realized_points = _calculate_points(self, self.avg_px_open, avg_px_close),
            !.realized_return = _calculate_return(self, self.avg_px_open, avg_px_close)]

ClosingPnl(self, fill) ==
    _calculate_pnl(self, self.avg_px_open, DecInt(fill.last_px), fill.last_qty)

\* Update quantities, after a BUY fill and after a SELL fill.
BuyQuantities(self, fill) ==
    [self EXCEPT !._buy_qty = self._buy_qty + fill.last_qty,
                 !.net_qty = self.net_qty + fill.last_qty]

\* SellQuantities with the sold quantity added to net_qty.
SellQuantities_Adds(self, fill) ==
    [self EXCEPT !._sell_qty = self._sell_qty + fill.last_qty,
                 !.net_qty = self.net_qty + fill.last_qty]

SellQuantities(self, fill) ==
    [self EXCEPT !._sell_qty = self._sell_qty + fill.last_qty,
                 !.net_qty = self.net_qty - fill.last_qty]

_handle_buy_order_fill(self, fill) ==
    LET realized_pnl0 == InitialRealizedPnl(self, fill)
        s1 == IF self.net_qty > 0
              THEN [self EXCEPT !.avg_px_open = _calculate_avg_px_open_px(self, fill)]
              ELSE IF self.net_qty < 0 THEN ClosingFill(self, fill)
              ELSE self
        realized_pnl == IF self.net_qty < 0
                        THEN DecAdd(realized_pnl0, ClosingPnl(self, fill))
                        ELSE realized_pnl0
        s2 == [s1 EXCEPT !.realized_pnl =
                  Money(DecAdd(self.realized_pnl.amount, realized_pnl), self.cost_currency)]
    IN  BuyQuantities(s2, fill)

_handle_sell_order_fill(self, fill) ==
    LET realized_pnl0 == InitialRealizedPnl(self, fill)
        s1 == IF self.net_qty < 0
              THEN [self EXCEPT !.avg_px_open = _calculate_avg_px_open_px(self, fill)]
              ELSE IF self.net_qty > 0 THEN ClosingFill(self, fill)
              ELSE self
        realized_pnl == IF self.net_qty > 0
                        THEN DecAdd(realized_pnl0, ClosingPnl(self, fill))
                        ELSE realized_pnl0
        s2 == [s1 EXCEPT !.realized_pnl =
                  Money(DecAdd(self.realized_pnl.amount, realized_pnl), self.cost_currency)]
    IN  SellQuantities(s2, fill)

\* Calculate cumulative commission: the dict entry of the commission's currency.
CumCommission(self, fill) ==
    LET currency == fill.commission.currency
        held == IF currency \in DOMAIN self._commissions
                THEN self._commissions[currency].amount ELSE DecInt(0)
    IN  [c \in (DOMAIN self._commissions) \cup {currency} |->
            IF c = currency
            THEN Money(DecAdd(held, fill.commission.amount), currency)
            ELSE self._commissions[c]]

\* SetQuantities with peak_qty following quantity down as well as up.
SetQuantities_PeakIsQuantity(self) ==
    [self EXCEPT !.quantity = Abs(self.net_qty), !.peak_qty = Abs(self.net_qty)]

\* Set quantities.
SetQuantities(self) ==
    LET quantity == Abs(self.net_qty)
    IN  [self EXCEPT
            !.quantity = quantity,
            !.peak_qty = IF quantity > self.peak_qty THEN quantity ELSE self.peak_qty]

\* SetState with the open/flat boundary off by one: a zero net quantity
\* is taken for LONG.
SetState_ZeroIsLong(self, fill) ==
    IF self.net_qty >= 0
    THEN [self EXCEPT !.entry = "BUY", !.side = "LONG", !.ts_closed = 0, !.duration_ns = 0]
    ELSE [self EXCEPT !.entry = "SELL", !.side = "SHORT", !.ts_closed = 0, !.duration_ns = 0]

\* SetState without the reset of ts_closed and duration_ns on an open position.
SetState_KeepsCloseTime(self, fill) ==
    IF self.net_qty > 0
    THEN [self EXCEPT !.entry = "BUY", !.side = "LONG"]
    ELSE IF self.net_qty < 0
    THEN [self EXCEPT !.entry = "SELL", !.side = "SHORT"]
    ELSE [self EXCEPT !.side = "FLAT", !.ts_closed = fill.ts_event,
                      !.duration_ns = fill.ts_event - self.ts_opened]

\* Set state.
SetState(self, fill) ==
    IF self.net_qty > 0
    THEN [self EXCEPT !.entry = "BUY", !.side = "LONG", !.ts_closed = 0, !.duration_ns = 0]
    ELSE IF self.net_qty < 0
    THEN [self EXCEPT !.entry = "SELL", !.side = "SHORT", !.ts_closed = 0, !.duration_ns = 0]
    ELSE [self EXCEPT !.side = "FLAT", !.ts_closed = fill.ts_event,
                      !.duration_ns = fill.ts_event - self.ts_opened]

SetTsLast(self, fill) == [self EXCEPT !.ts_last = fill.ts_event]

\* Position.apply(fill) from the append on: the fill is recorded and folded in.
ApplyFill(self, fill) ==
    LET s1 == [self EXCEPT !._events = Append(@, fill),
                           !._execution_ids = Append(@, fill.execution_id)]
        s2 == [s1 EXCEPT !._commissions = CumCommission(s1, fill)]
        s3 == IF fill.order_side = "BUY"
              THEN _handle_buy_order_fill(s2, fill)
              ELSE _handle_sell_order_fill(s2, fill)
        s4 == SetQuantities(s3)
        s5 == SetState(s4, fill)
    IN  SetTsLast(s5, fill)

\* apply without the duplicate check.
apply_Unchecked(self, fill) == [pos |-> ApplyFill(self, fill), raised |-> "none"]

\* apply with the duplicate check made against the last execution id only.
apply_ChecksLastOnly(self, fill) ==
    IF self._execution_ids # << >>
       /\ self._execution_ids[Len(self._execution_ids)] = fill.execution_id
    THEN [pos |-> self, raised |-> "KeyError"]
    ELSE [pos |-> ApplyFill(self, fill), raised |-> "none"]

\* apply with fills on a closed position refused.
apply_RefusesWhenClosed(self, fill) ==
    IF (\E i \in 1..Len(self._execution_ids) : self._execution_ids[i] = fill.execution_id)
       \/ (self._events # << >> /\ self.side = "FLAT")
    THEN [pos |-> self, raised |-> "KeyError"]
    ELSE [pos |-> ApplyFill(self, fill), raised |-> "none"]

\* Position.apply(fill): the resulting position and the exception raised.
\* Condition.not_in raises KeyError when fill.execution_id is among
\* self._execution_ids, before anything is written.
apply(self, fill) ==
    IF \E i \in 1..Len(self._execution_ids) : self._execution_ids[i] = fill.execution_id
    THEN [pos |-> self, raised |-> "KeyError"]
    ELSE [pos |-> ApplyFill(self, fill), raised |-> "none"]

\* Position.__init__(instrument, fill)
NewPosition(instrument, fill) ==
    LET self == [ _events |-> << >>,
                  _execution_ids |-> << >>,
                  _buy_qty |-> 0,
                  _sell_qty |-> 0,
                  _commissions |-> << >>,
                  entry |-> fill.order_side,
                  side |-> side_from_order_side_c(fill.order_side),
                  net_qty |-> 0,
                  quantity |-> 0,
                  peak_qty |-> 0,
                  ts_opened |-> fill.ts_event,
                  ts_last |-> fill.ts_event,
                  ts_closed |-> 0,
                  duration_ns |-> 0,
                  avg_px_open |-> DecInt(fill.last_px),
                  avg_px_close |-> None,
                  multiplier |-> instrument.multiplier,
                  is_inverse |-> instrument.is_inverse,
                  quote_currency |-> instrument.quote_currency,
                  base_currency |-> instrument.base_currency,
                  cost_currency |-> get_cost_currency(instrument),
                  realized_points |-> DecInt(0),
                  realized_return |-> DecInt(0),
                  realized_pnl |-> Money(DecInt(0), get_cost_currency(instrument)) ]
    IN  apply(self, fill).pos

\* Position.execution_ids_c()
execution_ids_c(self) == [i \in 1..Len(self._events) |-> self._events[i].execution_id]

\* Position.unrealized_pnl(last): a FLAT position answers zero in the quote
\* currency, an open one the PnL of its quantity in the cost currency.
unrealized_pnl(self, last) ==
    IF self.side = "FLAT"
    THEN Money(DecInt(0), self.quote_currency)
    ELSE Money(_calculate_pnl(self, self.avg_px_open, DecInt(last), self.quantity),
               self.cost_currency)

\* Position.total_pnl(last): the two amounts are added and labelled with the
\* cost currency.
total_pnl(self, last) ==
    Money(DecAdd(self.realized_pnl.amount, unrealized_pnl(self, last).amount),
          self.cost_currency)

\* ------------------------------------------------------------- BarBuilder

\* The price of a builder that holds none (Python's None); prices are positive.
NoPrice == 0

\* Quantity(value, precision): a fixed-point value of the tick's size
\* precision, here 0 decimal places; a Decimal is rounded half-to-even.
Quantity(value) ==
    LET q == value.n \div value.d
        r == value.n % value.d
    IN  IF 2 * r < value.d THEN q
        ELSE IF 2 * r > value.d THEN q + 1
        ELSE IF q % 2 = 0 THEN q ELSE q + 1

\* BarBuilder.__init__
NewBarBuilder ==
    [ initialized |-> FALSE, ts_last |-> 0, count |-> 0, _partial_set |-> FALSE,
      _last_close |-> NoPrice, _open |-> NoPrice, _high |-> NoPrice,
      _low |-> NoPrice, _close |-> NoPrice, volume |-> 0 ]

\* set_partial without the test of _partial_set.
set_partial_Repeatable(self, partial_bar) ==
    [self EXCEPT
        !._open = partial_bar.open,
        !._high = IF self._high = NoPrice \/ partial_bar.high > self._high
                  THEN partial_bar.high ELSE self._high,
        !._low = IF self._low = NoPrice \/ partial_bar.low < self._low
                 THEN partial_bar.low ELSE self._low,
        !._close = IF self._close = NoPrice THEN partial_bar.close ELSE self._close,
        !.volume = self.volume + partial_bar.volume,
        !.ts_last = IF self.ts_last = 0 THEN partial_bar.ts_init ELSE self.ts_last,
        !._partial_set = TRUE,
        !.initialized = TRUE]

\* BarBuilder.set_partial(partial_bar)
set_partial(self, partial_bar) ==
    IF self._partial_set THEN self
    ELSE [self EXCEPT
            !._open = partial_bar.open,
            !._high = IF self._high = NoPrice \/ partial_bar.high > self._high
                      THEN partial_bar.high ELSE self._high,
            !._low = IF self._low = NoPrice \/ partial_bar.low < self._low
                     THEN partial_bar.low ELSE self._low,
            !._close = IF self._close = NoPrice THEN partial_bar.close ELSE self._close,
            !.volume = self.volume + partial_bar.volume,
            !.ts_last = IF self.ts_last = 0 THEN partial_bar.ts_init ELSE self.ts_last,
            !._partial_set = TRUE,
            !.initialized = TRUE]

\* update with the low never lowered.
update_HighOnly(self, price, size, ts_event) ==
    IF ts_event < self.ts_last THEN self
    ELSE LET s1 == IF self._open = NoPrice
                   THEN [self EXCEPT !._open = price, !._high = price, !._low = price,
                                     !.initialized = TRUE]
                   ELSE IF price > self._high THEN [self EXCEPT !._high = price]
                   ELSE self
         IN  [s1 EXCEPT !._close = price, !.volume = self.volume + size,
                        !.count = self.count + 1, !.ts_last = ts_event]

\* update with late ticks folded in like any other.
update_AcceptsLate(self, price, size, ts_event) ==
    LET s1 == IF self._open = NoPrice
              THEN [self EXCEPT !._open = price, !._high = price, !._low = price,
                                !.initialized = TRUE]
              ELSE IF price > self._high THEN [self EXCEPT !._high = price]
              ELSE IF price < self._low THEN [self EXCEPT !._low = price]
              ELSE self
    IN  [s1 EXCEPT !._close = price, !.volume = self.volume + size,
                   !.count = self.count + 1, !.ts_last = ts_event]

\* BarBuilder.update(price, size, ts_event)
update(self, price, size, ts_event) ==
    IF ts_event < self.ts_last THEN self
    ELSE LET s1 == IF self._open = NoPrice
                   THEN [self EXCEPT !._open = price, !._high = price, !._low = price,
                                     !.initialized = TRUE]
                   ELSE IF price > self._high THEN [self EXCEPT !._high = price]
                   ELSE IF price < self._low THEN [self EXCEPT !._low = price]
                   ELSE self
         IN  [s1 EXCEPT !._close = price, !.volume = self.volume + size,
                        !.count = self.count + 1, !.ts_last = ts_event]

\* A reset that clears the prices instead of carrying the close forward.
reset_ClearsPrices(self) ==
    [self EXCEPT !._open = NoPrice, !._high = NoPrice, !._low = NoPrice,
                 !.volume = 0, !.count = 0]

\* BarBuilder.reset()
reset(self) ==
    [self EXCEPT !._open = self._close, !._high = self._close, !._low = self._close,
                 !.volume = 0, !.count = 0]

\* BarBuilder.build(ts_event): the bar, and the builder after its reset.
build(self, ts_event) ==
    LET s1 == IF self._open = NoPrice
              THEN [self EXCEPT !._open = self._last_close, !._high = self._last_close,
                                !._low = self._last_close, !._close = self._last_close]
              ELSE self
        bar == [ open |-> s1._open, high |-> s1._high, low |-> s1._low,
                 close |-> s1._close, volume |-> Quantity(DecInt(s1.volume)),
                 ts_event |-> ts_event, ts_init |-> ts_event ]
    IN  [ builder |-> reset([s1 EXCEPT !._last_close = s1._close]), bar |-> bar ]

\* BarBuilder.build_now()
build_now(self) == build(self, self.ts_last)

\* ---------------------------------------------------------- bar aggregators

\* One record shape serves the four aggregators: kind names the class,
\* _handler is the list the handler appends each bar to, _cum_value is used
\* by the value aggregator only, _clock and the four fields after it by the
\* time aggregator only.  _clock holds the aggregator's timer.

DecLess(a, b) == a.n * b.d < b.n * a.d

\* TestTimer.pop_next_event() / a timer firing: the event carries the timer's
\* next time, which then moves on by one interval.
pop_next_event(timer) ==
    [ event |-> [ts_event |-> timer.next_time_ns],
      timer |-> [timer EXCEPT !.next_time_ns = timer.next_time_ns + timer.interval_ns] ]

\* BarAggregator.__init__ and the subclass constructors.  The clock reads 0
\* at construction, so that get_start_time() is 0 and the timer's first
\* event is one interval later.
NewAggregator(kind, step, is_test_clock) ==
    [ kind |-> kind,
      step |-> step,
      _handler |-> << >>,
      _builder |-> NewBarBuilder,
      _cum_value |-> DecInt(0),
      _clock |-> [ is_test_clock |-> is_test_clock,
                   timer |-> [next_time_ns |-> step, interval_ns |-> step] ],
      interval_ns |-> step,
      next_close_ns |-> step,
      _build_on_next_tick |-> FALSE,
      _stored_close_ns |-> 0 ]

\* BarAggregator._build_now_and_send()
_build_now_and_send(self) ==
    LET r == build_now(self._builder)
    IN  [self EXCEPT !._builder = r.builder, !._handler = Append(self._handler, r.bar)]

\* BarAggregator._build_and_send(ts_event)
_build_and_send(self, ts_event) ==
    LET r == build(self._builder, ts_event)
    IN  [self EXCEPT !._builder = r.builder, !._handler = Append(self._handler, r.bar)]

\* The builder of an aggregator, updated.
BuilderUpdate(self, price, size, ts_event) ==
    [self EXCEPT !._builder = update(self._builder, price, size, ts_event)]

\* The tick aggregator closing its bar one update late.
TickBarAggregator_apply_update_Late(self, price, size, ts_event) ==
    LET s1 == BuilderUpdate(self, price, size, ts_event)
    IN  IF s1._builder.count = self.step + 1 THEN _build_now_and_send(s1) ELSE s1

\* TickBarAggregator._apply_update
TickBarAggregator_apply_update(self, price, size, ts_event) ==
    LET s1 == BuilderUpdate(self, price, size, ts_event)
    IN  IF s1._builder.count = self.step THEN _build_now_and_send(s1) ELSE s1

\* The volume aggregator's loop without the split: an update that fills the
\* bar is folded in whole.
VolumeBarAggregator_loop_NoSplit(self, price, size_update, ts_event) ==
    IF ~(size_update > 0) THEN self
    ELSE IF self._builder.volume + size_update < self.step
    THEN BuilderUpdate(self, price, Quantity(DecInt(size_update)), ts_event)
    ELSE _build_now_and_send(BuilderUpdate(self, price, Quantity(DecInt(size_update)), ts_event))

\* A loop body that takes a whole step off the update's size for each bar.
VolumeBarAggregator_body_WholeStep(self, price, size_update, ts_event) ==
    IF self._builder.volume + size_update < self.step
    THEN [ self |-> BuilderUpdate(self, price, Quantity(DecInt(size_update)), ts_event),
           size_update |-> size_update,
           break |-> TRUE ]
    ELSE LET size_diff == self.step - self._builder.volume
             s1 == BuilderUpdate(self, price, Quantity(DecInt(size_diff)), ts_event)
         IN  [ self |-> _build_now_and_send(s1),
               size_update |-> size_update - self.step,
               break |-> FALSE ]

\* VolumeBarAggregator._apply_update: one pass of the while loop's body, with
\* size_update > 0: the aggregator and size_update after it, and whether it
\* left the loop by break.  When the assertion at its end fails
\* (size_update < 0) the aggregator is as the body left it.
VolumeBarAggregator_body(self, price, size_update, ts_event) ==
    IF self._builder.volume + size_update < self.step
    THEN [ self |-> BuilderUpdate(self, price, Quantity(DecInt(size_update)), ts_event),
           size_update |-> size_update,
           break |-> TRUE ]
    ELSE LET size_diff == self.step - self._builder.volume
             s1 == BuilderUpdate(self, price, Quantity(DecInt(size_diff)), ts_event)
         IN  [ self |-> _build_now_and_send(s1),
               size_update |-> size_update - size_diff,
               break |-> FALSE ]

\* VolumeBarAggregator._apply_update: the while loop over what is left of
\* the update's size.
RECURSIVE VolumeBarAggregator_loop(_, _, _, _)
VolumeBarAggregator_loop(self, price, size_update, ts_event) ==
    IF ~(size_update > 0) THEN self
    ELSE LET r == VolumeBarAggregator_body(self, price, size_update, ts_event)
         IN  IF r.break THEN r.self
             ELSE VolumeBarAggregator_loop(r.self, price, r.size_update, ts_event)

VolumeBarAggregator_apply_update(self, price, size, ts_event) ==
    VolumeBarAggregator_loop(self, price, size, ts_event)

\* ValueBarAggregator._apply_update: one pass of the while loop's body;
\* size_update is a Decimal.
ValueBarAggregator_body(self, price, size_update, ts_event) ==
    LET value_update == DecMul(DecInt(price), size_update)
    IN  IF DecLess(DecAdd(self._cum_value, value_update), DecInt(self.step))
        THEN [ self |-> BuilderUpdate([self EXCEPT !._cum_value =
                                           DecAdd(self._cum_value, value_update)],
                                      price, Quantity(size_update), ts_event),
               size_update |-> size_update,
               break |-> TRUE ]
        ELSE LET value_diff == DecSub(DecInt(self.step), self._cum_value)
                 size_diff == DecMul(size_update, DecDiv(value_diff, value_update))
                 s1 == BuilderUpdate(self, price, Quantity(size_diff), ts_event)
             IN  [ self |-> [_build_now_and_send(s1) EXCEPT !._cum_value = DecInt(0)],
                   size_update |-> DecSub(size_update, size_diff),
                   break |-> FALSE ]

\* ValueBarAggregator._apply_update: the while loop.
RECURSIVE ValueBarAggregator_loop(_, _, _, _)
ValueBarAggregator_loop(self, price, size_update, ts_event) ==
    IF ~(size_update.n > 0) THEN self
    ELSE LET r == ValueBarAggregator_body(self, price, size_update, ts_event)
         IN  IF r.break THEN r.self
             ELSE ValueBarAggregator_loop(r.self, price, r.size_update, ts_event)

ValueBarAggregator_apply_update(self, price, size, ts_event) ==
    ValueBarAggregator_loop(self, price, DecInt(size), ts_event)

\* _build_event closing a bar only when the builder was updated since the
\* last one.
_build_event_SkipsEmpty(self, event) ==
    IF ~self._builder.initialized \/ self._builder.count = 0
    THEN [self EXCEPT !._build_on_next_tick = TRUE, !._stored_close_ns = self.next_close_ns]
    ELSE _build_and_send(self, event.ts_event)

\* _build_event closing a bar whether or not the builder is initialized.
_build_event_Always(self, event) == _build_and_send(self, event.ts_event)

\* TimeBarAggregator._build_event(event): the timer's callback.
_build_event(self, event) ==
    IF ~self._builder.initialized
    THEN [self EXCEPT !._build_on_next_tick = TRUE, !._stored_close_ns = self.next_close_ns]
    ELSE _build_and_send(self, event.ts_event)

\* TimeBarAggregator._build_bar(ts_event)
_build_bar(self, ts_event) ==
    LET r == pop_next_event(self._clock.timer)
        s1 == _build_event([self EXCEPT !._clock.timer = r.timer], r.event)
    IN  [s1 EXCEPT !.next_close_ns = s1._clock.timer.next_time_ns]

\* The part of TimeBarAggregator._apply_update after the test-clock branches.
TimeBarAggregator_update_and_flush(self, price, size, ts_event) ==
    LET s1 == BuilderUpdate(self, price, size, ts_event)
    IN  IF s1._build_on_next_tick
        THEN [_build_and_send(s1, s1._stored_close_ns) EXCEPT
                 !._build_on_next_tick = FALSE, !._stored_close_ns = 0]
        ELSE s1

\* The time aggregator closing the bar before an update that falls on the
\* boundary itself.
TimeBarAggregator_apply_update_ClosesFirst(self, price, size, ts_event) ==
    IF self._clock.is_test_clock /\ self.next_close_ns <= ts_event
    THEN BuilderUpdate(_build_bar(self, self.next_close_ns), price, size, ts_event)
    ELSE TimeBarAggregator_update_and_flush(self, price, size, ts_event)

\* TimeBarAggregator._apply_update
TimeBarAggregator_apply_update(self, price, size, ts_event) ==
    IF self._clock.is_test_clock /\ self.next_close_ns < ts_event
    THEN BuilderUpdate(_build_bar(self, self.next_close_ns), price, size, ts_event)
    ELSE IF self._clock.is_test_clock /\ self.next_close_ns = ts_event
    THEN _build_bar(BuilderUpdate(self, price, size, ts_event), self.next_close_ns)
    ELSE TimeBarAggregator_update_and_flush(self, price, size, ts_event)

\* _apply_update of the aggregator's class.
_apply_update(self, price, size, ts_event) ==
    CASE self.kind = "TICK" -> TickBarAggregator_apply_update(self, price, size, ts_event)
      [] self.kind = "VOLUME" -> VolumeBarAggregator_apply_update(self, price, size, ts_event)
      [] self.kind = "VALUE" -> ValueBarAggregator_apply_update(self, price, size, ts_event)
      [] self.kind = "TIME" -> TimeBarAggregator_apply_update(self, price, size, ts_event)

\* BarAggregator.handle_trade_tick(tick)
handle_trade_tick(self, tick) == _apply_update(self, tick.price, tick.size, tick.ts_event)

\* TimeBarAggregator.set_partial(partial_bar)
TimeBarAggregator_set_partial(self, partial_bar) ==
    [self EXCEPT !._builder = set_partial(self._builder, partial_bar)]

\* The clock's timer fires: the next event is taken off the timer and handed
\* to the callback, _build_event.
timer_fires(self) ==
    LET r == pop_next_event(self._clock.timer)
    IN  _build_event([self EXCEPT !._clock.timer = r.timer], r.event)

\* -------------------------------------------------------------- behaviour

\* The venue numbers its executions 1, 2, ... and stamps each one tick after
\* the one before: the fills that may arrive next.
NewFills == Fills(Len(position._events) + 1, position.ts_last + 1)

\* A re-sent execution report: one of the applied fills, once more.
ResentFills == { position._events[i] : i \in 1..Len(position._events) }

Init ==
    \E instrument \in Instruments : \E fill \in Fills(1, 1) :
        /\ position = NewPosition(instrument, fill)
        /\ raised = "none"
        /\ aggregator = Absent
        /\ calls = 0
        /\ fed = Absent
        /\ book = Absent
        /\ applied = Absent
        /\ order = Absent
        /\ order_error = "none"
        /\ clock = Absent
        /\ build_timer = Absent

\* One call of position.apply(fill).
Apply(fill) ==
    LET r == apply(position, fill)
    IN  /\ position' = r.pos
        /\ raised' = r.raised
        /\ UNCHANGED <<barvars, bookvars, ordervars, timervars>>

ApplyNew ==
    /\ Len(position._events) < MaxFills
    /\ \E fill \in NewFills : Apply(fill)

ApplyResent == \E fill \in ResentFills : Apply(fill)

Next == ApplyNew \/ ApplyResent

Spec == Init /\ [][Next]_allvars

\* ------------------------------------------------- behaviour: bar aggregators

\* The ticks that may arrive next: late by one, at the time of the last
\* update, and one or three time units after it.
Ticks ==
    [ price : TickPrices,
      size : TickSizes,
      ts_event : { t \in { aggregator._builder.ts_last + k : k \in {-1, 0, 1, 3} } : t >= 1 } ]

InitBars ==
    \E kind \in AggregatorKinds : \E step \in Steps[kind] :
    \E is_test_clock \in (IF kind = "TIME" THEN BOOLEAN ELSE {FALSE}) :
        /\ aggregator = NewAggregator(kind, step, is_test_clock)
        /\ calls = 0
        /\ fed = [ticks |-> 0, volume |-> 0, late |-> 0, partial_at |-> -1]
        /\ position = Absent
        /\ raised = "none"
        /\ book = Absent
        /\ applied = Absent
        /\ order = Absent
        /\ order_error = "none"
        /\ clock = Absent
        /\ build_timer = Absent

\* aggregator.handle_trade_tick(tick)
HandleTick ==
    /\ calls < MaxCalls
    /\ \E tick \in Ticks :
          /\ aggregator' = handle_trade_tick(aggregator, tick)
          /\ fed' = IF tick.ts_event < aggregator._builder.ts_last
                    THEN [fed EXCEPT !.late = fed.late + 1]
                    ELSE [fed EXCEPT !.ticks = fed.ticks + 1,
                                     !.volume = fed.volume + tick.size]
    /\ calls' = calls + 1
    /\ UNCHANGED <<vars, bookvars, ordervars, timervars>>

\* aggregator.set_partial(partial_bar), which the time aggregator offers.
SetPartial ==
    /\ calls < MaxCalls
    /\ aggregator.kind = "TIME"
    /\ \E partial_bar \in PartialBars :
           aggregator' = TimeBarAggregator_set_partial(aggregator, partial_bar)
    /\ calls' = calls + 1
    /\ fed' = IF aggregator._builder._partial_set THEN fed
              ELSE [fed EXCEPT !.partial_at = Len(aggregator._handler)]
    /\ UNCHANGED <<vars, bookvars, ordervars, timervars>>

\* The clock reaches the timer's next time and calls the aggregator back.
TimerFires ==
    /\ calls < MaxCalls
    /\ aggregator.kind = "TIME"
    /\ aggregator' = timer_fires(aggregator)
    /\ calls' = calls + 1
    /\ UNCHANGED fed
    /\ UNCHANGED <<vars, bookvars, ordervars, timervars>>

NextBars == HandleTick \/ SetPartial \/ TimerFires

SpecBars == InitBars /\ [][NextBars]_allvars

\* ------------------------------------------------- simulated L1 order book

\* Prices and sizes of quotes and trades.
BookPrices == {1, 2, 3}
BookSizes == {1, 2, 3}

\* Aggressor side: which side (BUY or SELL) crossed the spread in a trade.
AggressorSides == {"BUY", "SELL"}

QuoteTicks ==
    [ type : {"QuoteTick"}, bid : BookPrices, ask : BookPrices,
      bid_size : BookSizes, ask_size : BookSizes ]

TradeTicks ==
    [ type : {"TradeTick"}, price : BookPrices, size : BookSizes,
      aggressor_side : AggressorSides ]

\* None, for a reference to an order or to a level.
NoRef == [level |-> 0, order |-> 0]

\* A ladder is the sequence of its levels, best first; a level has a price and
\* the sequence of its orders.  A reference to a level is its index in the
\* ladder (with order 0), a reference to an order the pair of its level's
\* index and its own index in the level: the book's _top_bid and the order in the ladder are one
\* object.
BookOrder(price, size, side) == [price |-> price, size |-> size, side |-> side]

\* Ladder.add(order): the order joins the level at its price, or a new level
\* is made for it behind the levels there are.  The value is the ladder and
\* the reference to the order in it.
Ladder_add(ladder, o) ==
    IF \E i \in 1..Len(ladder) : ladder[i].price = o.price
    THEN LET i == CHOOSE j \in 1..Len(ladder) : ladder[j].price = o.price
         IN  [ ladder |-> [ladder EXCEPT ![i].orders = Append(@, o)],
               ref |-> [level |-> i, order |-> Len(ladder[i].orders) + 1] ]
    ELSE [ ladder |-> Append(ladder, [price |-> o.price, orders |-> <<o>>]),
           ref |-> [level |-> Len(ladder) + 1, order |-> 1] ]

\* Ladder.top(): the first level, None on an empty ladder.
Ladder_top(ladder) == IF Len(ladder) = 0 THEN NoRef ELSE [level |-> 1, order |-> 0]

\* SimulatedL1OrderBook.__init__
NewBook ==
    [ bids |-> << >>,
      asks |-> << >>,
      _top_bid |-> NoRef,
      _top_ask |-> NoRef,
      _top_bid_level |-> NoRef,
      _top_ask_level |-> NoRef ]

\* The objects the references stand for.
top_bid(self) == self.bids[self._top_bid.level].orders[self._top_bid.order]
top_ask(self) == self.asks[self._top_ask.level].orders[self._top_ask.order]
top_bid_level(self) == self.bids[self._top_bid_level.level]
top_ask_level(self) == self.asks[self._top_ask_level.level]

\* _update_bid that leaves the size of the order it has alone.
_update_bid_PriceOnly(self, price, size) ==
    IF self._top_bid = NoRef
    THEN LET r == Ladder_add(self.bids, BookOrder(price, size, "BUY"))
         IN  [self EXCEPT !.bids = r.ladder,
                          !._top_bid = r.ref,
                          !._top_bid_level = Ladder_top(r.ladder)]
    ELSE LET s1 == [self EXCEPT !.bids[self._top_bid_level.level].price = price]
         IN  [s1 EXCEPT !.bids[self._top_bid.level].orders[self._top_bid.order].price = price]

\* _update_bid(price, size)
_update_bid(self, price, size) ==
    IF self._top_bid = NoRef
    THEN LET r == Ladder_add(self.bids, BookOrder(price, size, "BUY"))
         IN  [self EXCEPT !.bids = r.ladder,
                          !._top_bid = r.ref,
                          !._top_bid_level = Ladder_top(r.ladder)]
    ELSE LET s1 == [self EXCEPT !.bids[self._top_bid_level.level].price = price]
             s2 == [s1 EXCEPT !.bids[self._top_bid.level].orders[self._top_bid.order].price = price]
         IN  [s2 EXCEPT !.bids[self._top_bid.level].orders[self._top_bid.order].size = size]

\* _update_ask that writes the price of the order it has and not its level's.
_update_ask_OrderOnly(self, price, size) ==
    IF self._top_ask = NoRef
    THEN LET r == Ladder_add(self.asks, BookOrder(price, size, "SELL"))
         IN  [self EXCEPT !.asks = r.ladder,
                          !._top_ask = r.ref,
                          !._top_ask_level = Ladder_top(r.ladder)]
    ELSE LET s1 == [self EXCEPT !.asks[self._top_ask.level].orders[self._top_ask.order].price = price]
         IN  [s1 EXCEPT !.asks[self._top_ask.level].orders[self._top_ask.order].size = size]

\* _update_ask(price, size)
_update_ask(self, price, size) ==
    IF self._top_ask = NoRef
    THEN LET r == Ladder_add(self.asks, BookOrder(price, size, "SELL"))
         IN  [self EXCEPT !.asks = r.ladder,
                          !._top_ask = r.ref,
                          !._top_ask_level = Ladder_top(r.ladder)]
    ELSE LET s1 == [self EXCEPT !.asks[self._top_ask_level.level].price = price]
             s2 == [s1 EXCEPT !.asks[self._top_ask.level].orders[self._top_ask.order].price = price]
         IN  [s2 EXCEPT !.asks[self._top_ask.level].orders[self._top_ask.order].size = size]

\* _update_quote_tick(tick)
_update_quote_tick(self, tick) ==
    _update_ask(_update_bid(self, tick.bid, tick.bid_size), tick.ask, tick.ask_size)

\* _update_trade_tick without the crossing rule.
_update_trade_tick_NoCrossing(self, tick) ==
    IF tick.aggressor_side = "SELL"
    THEN _update_bid(self, tick.price, tick.size)
    ELSE IF tick.aggressor_side = "BUY"
    THEN _update_ask(self, tick.price, tick.size)
    ELSE self

\* _update_trade_tick(tick)
_update_trade_tick(self, tick) ==
    IF tick.aggressor_side = "SELL"
    THEN LET s1 == _update_bid(self, tick.price, tick.size)
         IN  IF s1._top_ask # NoRef /\ top_bid(s1).price >= top_ask(s1).price
             THEN LET s2 == [s1 EXCEPT !.asks[s1._top_ask.level].orders[s1._top_ask.order].price =
                                           top_bid(s1).price]
                  IN  [s2 EXCEPT !.asks[s2._top_ask_level.level].price = top_bid(s2).price]
             ELSE s1
    ELSE IF tick.aggressor_side = "BUY"
    THEN LET s1 == _update_ask(self, tick.price, tick.size)
         IN  IF s1._top_bid # NoRef /\ top_ask(s1).price <= top_bid(s1).price
             THEN LET s2 == [s1 EXCEPT !.bids[s1._top_bid.level].orders[s1._top_bid.order].price =
                                           top_ask(s1).price]
                  IN  [s2 EXCEPT !.bids[s2._top_bid_level.level].price = top_ask(s2).price]
             ELSE s1
    ELSE self

\* update_tick(tick)
update_tick(self, tick) ==
    IF tick.type = "QuoteTick"
    THEN _update_quote_tick(self, tick)
    ELSE _update_trade_tick(self, tick)

\* best_bid_price(), best_ask_price(): the price of the top level of the side,
\* None (NoPrice) on an empty side; best_bid_qty(), best_ask_qty(): the sizes
\* of its orders together.
RECURSIVE volume(_)
volume(orders) == IF Len(orders) = 0 THEN 0 ELSE orders[1].size + volume(Tail(orders))

best_bid_price(self) == IF Len(self.bids) = 0 THEN NoPrice ELSE self.bids[1].price
best_ask_price(self) == IF Len(self.asks) = 0 THEN NoPrice ELSE self.asks[1].price
best_bid_qty(self) == IF Len(self.bids) = 0 THEN NoPrice ELSE volume(self.bids[1].orders)
best_ask_qty(self) == IF Len(self.asks) = 0 THEN NoPrice ELSE volume(self.asks[1].orders)

\* ------------------------------------------------ behaviour: L1 order book

InitBook ==
    /\ book = NewBook
    /\ applied = Absent
    /\ position = Absent
    /\ raised = "none"
    /\ aggregator = Absent
    /\ calls = 0
    /\ fed = Absent
    /\ order = Absent
    /\ order_error = "none"
    /\ clock = Absent
    /\ build_timer = Absent

\* book.update_tick(tick) with a quote tick
UpdateQuoteTick ==
    /\ \E tick \in QuoteTicks :
          /\ book' = update_tick(book, tick)
          /\ applied' = tick
    /\ UNCHANGED <<vars, barvars, ordervars, timervars>>

\* book.update_tick(tick) with a trade tick
UpdateTradeTick ==
    /\ \E tick \in TradeTicks :
          /\ book' = update_tick(book, tick)
          /\ applied' = tick
    /\ UNCHANGED <<vars, barvars, ordervars, timervars>>

NextBook == UpdateQuoteTick \/ UpdateTradeTick

SpecBook == InitBook /\ [][NextBook]_allvars

\* ------------------------------------------------------ stop-limit order

\* The largest number of events one order holds (the initialization event
\* and the events applied to it).
MaxEvents == 6

\* Order quantities, the limit and trigger prices an order is made with, and
\* the values an Updated event carries.
OrderQuantities == {2, 3}
LimitPrices == {10}
TriggerPrices == {12}
UpdatedQuantities == {1, 2, 3}
UpdatedPrices == {11, 13}
VenueOrderIds == {"V1", "V2"}

\* None, for a display quantity and for a venue order id.
NoQuantity == -2
NoId == "None"

OrderStatuses ==
    { "INITIALIZED", "DENIED", "SUBMITTED", "REJECTED", "ACCEPTED", "CANCELED",
      "EXPIRED", "TRIGGERED", "PENDING_UPDATE", "PENDING_CANCEL",
      "PARTIALLY_FILLED", "FILLED" }

\* A transition table in which a canceled order still takes a Filled event.
OrderTransitions_CanceledFills ==
    [ INITIALIZED |-> {"Denied", "Submitted"},
      SUBMITTED |-> {"Rejected", "Accepted", "PendingCancel", "Canceled", "Filled"},
      ACCEPTED |-> {"PendingUpdate", "Updated", "PendingCancel", "Canceled",
                    "Triggered", "Expired", "Filled"},
      PENDING_UPDATE |-> {"Accepted", "Updated", "PendingCancel", "Canceled",
                          "Triggered", "Expired", "Filled"},
      PENDING_CANCEL |-> {"Accepted", "Canceled", "Expired", "Filled"},
      TRIGGERED |-> {"PendingUpdate", "Updated", "PendingCancel", "Canceled",
                     "Expired", "Filled"},
      PARTIALLY_FILLED |-> {"PendingUpdate", "Updated", "PendingCancel", "Canceled",
                            "Expired", "Filled"},
      DENIED |-> {},
      REJECTED |-> {},
      CANCELED |-> {"Filled"},
      EXPIRED |-> {},
      FILLED |-> {} ]

\* The transition table of the order's state machine: the events a status
\* takes, and for each the status it leads to (Filled leads to
\* PARTIALLY_FILLED or FILLED by the quantities, Accepted from a PENDING_
\* status to the rollback status).
OrderTransitions ==
    [ INITIALIZED |-> {"Denied", "Submitted"},
      SUBMITTED |-> {"Rejected", "Accepted", "PendingCancel", "Canceled", "Filled"},
      ACCEPTED |-> {"PendingUpdate", "Updated", "PendingCancel", "Canceled",
                    "Triggered", "Expired", "Filled"},
      PENDING_UPDATE |-> {"Accepted", "Updated", "PendingCancel", "Canceled",
                          "Triggered", "Expired", "Filled"},
      PENDING_CANCEL |-> {"Accepted", "Canceled", "Expired", "Filled"},
      TRIGGERED |-> {"PendingUpdate", "Updated", "PendingCancel", "Canceled",
                     "Expired", "Filled"},
      PARTIALLY_FILLED |-> {"PendingUpdate", "Updated", "PendingCancel", "Canceled",
                            "Expired", "Filled"},
      DENIED |-> {},
      REJECTED |-> {},
      CANCELED |-> {},
      EXPIRED |-> {},
      FILLED |-> {} ]

\* Order.__init__ and PassiveOrder.__init__: the fields of a new order.
NewOrder(quantity, price) ==
    [ status |-> "INITIALIZED",
      _rollback_status |-> "INITIALIZED",
      event_count |-> 1,
      _execution_ids |-> << >>,
      venue_order_id |-> NoId,
      quantity |-> quantity,
      filled_qty |-> 0,
      leaves_qty |-> quantity,
      price |-> price ]

\* The order variable when the constructor raised: no order.
NoOrder == [status |-> "NOT_CREATED"]

\* A constructor that tests display_qty against the quantity only.
StopLimitOrder_UpperOnly(quantity, price, trigger, display_qty) ==
    IF ~(display_qty = NoQuantity \/ display_qty <= quantity)
    THEN [order |-> NoOrder, raised |-> "ValueError"]
    ELSE [ order |-> NewOrder(quantity, price) @@
                     [ trigger |-> trigger, is_triggered |-> FALSE,
                       display_qty |-> display_qty ],
           raised |-> "none" ]

\* StopLimitOrder.__init__: the order, or the error raised.
StopLimitOrder(quantity, price, trigger, display_qty) ==
    IF ~(display_qty = NoQuantity \/ (0 <= display_qty /\ display_qty <= quantity))
    THEN [order |-> NoOrder, raised |-> "ValueError"]
    ELSE LET base == NewOrder(quantity, price)
         IN  [ order |-> [ status |-> base.status,
                           _rollback_status |-> base._rollback_status,
                           event_count |-> base.event_count,
                           _execution_ids |-> base._execution_ids,
                           venue_order_id |-> base.venue_order_id,
                           quantity |-> base.quantity,
                           filled_qty |-> base.filled_qty,
                           leaves_qty |-> base.leaves_qty,
                           price |-> base.price,
                           trigger |-> trigger,
                           is_triggered |-> FALSE,
                           display_qty |-> display_qty ],
               raised |-> "none" ]

\* _updated that writes the trigger price whether or not the order is triggered.
_updated_TriggerOnly(self, event) ==
    LET s1 == [self EXCEPT !.venue_order_id = event.venue_order_id]
        s2 == [s1 EXCEPT !.quantity = event.quantity]
    IN  [s2 EXCEPT !.trigger = event.price]

\* StopLimitOrder._updated(event)
_updated(self, event) ==
    LET s1 == [self EXCEPT !.venue_order_id = event.venue_order_id]
        s2 == [s1 EXCEPT !.quantity = event.quantity]
    IN  IF s2.is_triggered
        THEN [s2 EXCEPT !.price = event.price]
        ELSE [s2 EXCEPT !.trigger = event.price]

\* StopLimitOrder._triggered(event)
_triggered(self, event) == [self EXCEPT !.is_triggered = TRUE]

\* Order._accepted(event): the venue's id for the order.
_accepted(self, event) == [self EXCEPT !.venue_order_id = event.venue_order_id]

\* A _filled that takes the last fill's quantity for the filled quantity.
_filled_LastOnly(self, event) ==
    LET s1 == [self EXCEPT !._execution_ids = Append(@, event.execution_id)]
        s2 == [s1 EXCEPT !.filled_qty = event.last_qty]
    IN  [s2 EXCEPT !.leaves_qty = s2.quantity - s2.filled_qty]

\* Order._filled(event)
_filled(self, event) ==
    LET s1 == [self EXCEPT !._execution_ids = Append(@, event.execution_id)]
        s2 == [s1 EXCEPT !.filled_qty = @ + event.last_qty]
    IN  [s2 EXCEPT !.leaves_qty = s2.quantity - s2.filled_qty]

\* The status an event the table allows leads to, after its handler has run.
\* Accepted restores the status a PENDING_ status was entered from; an order
\* that was pending from SUBMITTED is accepted by it.
NextStatus(self, handled, event) ==
    CASE event.type = "Denied" -> "DENIED"
      [] event.type = "Submitted" -> "SUBMITTED"
      [] event.type = "Rejected" -> "REJECTED"
      [] event.type = "Accepted" ->
             IF self.status \in {"PENDING_UPDATE", "PENDING_CANCEL"}
                /\ self._rollback_status # "SUBMITTED"
             THEN self._rollback_status
             ELSE "ACCEPTED"
      [] event.type = "PendingUpdate" -> "PENDING_UPDATE"
      [] event.type = "PendingCancel" -> "PENDING_CANCEL"
      [] event.type = "Updated" ->
             IF self.status = "PENDING_UPDATE" THEN "ACCEPTED" ELSE self.status
      [] event.type = "Canceled" -> "CANCELED"
      [] event.type = "Triggered" -> "TRIGGERED"
      [] event.type = "Expired" -> "EXPIRED"
      [] event.type = "Filled" ->
             IF handled.filled_qty = handled.quantity THEN "FILLED" ELSE "PARTIALLY_FILLED"

\* An apply that takes a Filled event whose execution_id it already holds.
apply_event_NoDuplicateCheck(self, event) ==
    IF event.type \notin OrderTransitions[self.status]
    THEN [order |-> self, raised |-> "InvalidStateTrigger"]
    ELSE LET handled ==
                 CASE event.type = "Accepted" -> _accepted(self, event)
                   [] event.type = "Updated" -> _updated(self, event)
                   [] event.type = "Triggered" -> _triggered(self, event)
                   [] event.type = "Filled" -> _filled(self, event)
                   [] OTHER -> self
             s1 == [handled EXCEPT !._rollback_status =
                        IF event.type \in {"PendingUpdate", "PendingCancel"}
                        THEN self.status ELSE @]
             s2 == [s1 EXCEPT !.status = NextStatus(self, handled, event)]
         IN  [order |-> [s2 EXCEPT !.event_count = @ + 1], raised |-> "none"]

\* Order.apply(event): the order after the call and the error raised.
apply_event(self, event) ==
    IF event.type \notin OrderTransitions[self.status]
    THEN [order |-> self, raised |-> "InvalidStateTrigger"]
    ELSE IF event.type = "Filled"
            /\ \E i \in 1..Len(self._execution_ids) : self._execution_ids[i] = event.execution_id
    THEN [order |-> self, raised |-> "ValueError"]
    ELSE LET handled ==
                 CASE event.type = "Accepted" -> _accepted(self, event)
                   [] event.type = "Updated" -> _updated(self, event)
                   [] event.type = "Triggered" -> _triggered(self, event)
                   [] event.type = "Filled" -> _filled(self, event)
                   [] OTHER -> self
             s1 == [handled EXCEPT !._rollback_status =
                        IF event.type \in {"PendingUpdate", "PendingCancel"}
                        THEN self.status ELSE @]
             s2 == [s1 EXCEPT !.status = NextStatus(self, handled, event)]
         IN  [order |-> [s2 EXCEPT !.event_count = @ + 1], raised |-> "none"]

\* --------------------------------------------- behaviour: stop-limit order

\* The events that carry nothing the model reads but their type.
PlainEvents ==
    [ type : {"Denied", "Submitted", "Rejected", "PendingUpdate", "PendingCancel",
              "Canceled", "Triggered", "Expired"} ]

AcceptedEvents == [type : {"Accepted"}, venue_order_id : VenueOrderIds]

UpdatedEvents ==
    [ type : {"Updated"}, venue_order_id : VenueOrderIds,
      quantity : UpdatedQuantities, price : UpdatedPrices ]

\* Fills: the venue fills no more than the order has left, and numbers its
\* executions 1, 2, ...; it may send an execution again.
FilledEvents(self) ==
    [ type : {"Filled"},
      execution_id : 1..(Len(self._execution_ids) + 1),
      last_qty : { q \in 1..3 : q <= self.quantity - self.filled_qty } ]

\* The values display_qty is given: none, negative, zero, the whole
\* quantity, more than the quantity.
DisplayQuantities(quantity) == {NoQuantity, -1, 0, quantity, quantity + 1}

InitOrders ==
    /\ \E quantity \in OrderQuantities : \E price \in LimitPrices :
       \E trigger \in TriggerPrices : \E display_qty \in DisplayQuantities(quantity) :
          LET r == StopLimitOrder(quantity, price, trigger, display_qty)
          IN  /\ order = r.order
              /\ order_error = r.raised
    /\ position = Absent
    /\ raised = "none"
    /\ aggregator = Absent
    /\ calls = 0
    /\ fed = Absent
    /\ book = Absent
    /\ applied = Absent
    /\ clock = Absent
    /\ build_timer = Absent

\* One call of order.apply(event).
ApplyEvent(event) ==
    LET r == apply_event(order, event)
    IN  /\ order' = r.order
        /\ order_error' = r.raised
        /\ UNCHANGED <<vars, barvars, bookvars, timervars>>

ApplyPlain ==
    /\ order # NoOrder
    /\ order.event_count < MaxEvents
    /\ \E event \in PlainEvents : ApplyEvent(event)

ApplyAccepted ==
    /\ order # NoOrder
    /\ order.event_count < MaxEvents
    /\ \E event \in AcceptedEvents : ApplyEvent(event)

ApplyUpdated ==
    /\ order # NoOrder
    /\ order.event_count < MaxEvents
    /\ \E event \in UpdatedEvents : ApplyEvent(event)

ApplyFilled ==
    /\ order # NoOrder
    /\ order.event_count < MaxEvents
    /\ \E event \in FilledEvents(order) : ApplyEvent(event)

NextOrders == ApplyPlain \/ ApplyAccepted \/ ApplyUpdated \/ ApplyFilled

SpecOrders == InitOrders /\ [][NextOrders]_allvars

\* ------------------------------------------------ time bars: build timer

\* The time aggregations and the steps of a time bar specification.
TimeAggregations == {"SECOND", "MINUTE", "HOUR", "DAY"}
TimeSteps == {1, 2, 7}

\* The calendar of datetime.
IsLeap(year) == (year % 4 = 0 /\ year % 100 # 0) \/ year % 400 = 0

DaysInMonth(year, month) ==
    IF month = 2 THEN (IF IsLeap(year) THEN 29 ELSE 28)
    ELSE IF month \in {4, 6, 9, 11} THEN 30 ELSE 31

DaysInYear(year) == IF IsLeap(year) THEN 366 ELSE 365

RECURSIVE DaysBeforeMonth(_, _)
DaysBeforeMonth(year, month) ==
    IF month = 1 THEN 0
    ELSE DaysBeforeMonth(year, month - 1) + DaysInMonth(year, month - 1)

\* The day of the year of a datetime, from 1.
YearDay(dt) == DaysBeforeMonth(dt.year, dt.month) + dt.day

\* The date of day n of a year; n < 1 lies in the years before and
\* n > DaysInYear(year) in the years after.
RECURSIVE FromYearDay(_, _)
FromYearDay(year, n) ==
    IF n < 1 THEN FromYearDay(year - 1, n + DaysInYear(year - 1))
    ELSE IF n > DaysInYear(year) THEN FromYearDay(year + 1, n - DaysInYear(year))
    ELSE LET month == CHOOSE m \in 1..12 :
                          /\ DaysBeforeMonth(year, m) < n
                          /\ n <= DaysBeforeMonth(year, m) + DaysInMonth(year, m)
         IN  [year |-> year, month |-> month, day |-> n - DaysBeforeMonth(year, month)]

\* The second of the day of a datetime.
SecondOfDay(dt) == dt.hour * 3600 + dt.minute * 60 + dt.second

\* timedelta(days=, hours=, minutes=, seconds=, microseconds=), which Python
\* keeps normalised as days, seconds and microseconds.
timedelta(days, hours, minutes, seconds, microseconds) ==
    LET s == hours * 3600 + minutes * 60 + seconds + microseconds \div 1000000
    IN  [ days |-> days + s \div 86400,
          seconds |-> s % 86400,
          microseconds |-> microseconds % 1000000 ]

\* datetime - timedelta, for a timedelta that is not negative.
datetime_sub(dt, td) ==
    LET us == dt.microsecond - td.microseconds
        s == SecondOfDay(dt) - td.seconds - (IF us < 0 THEN 1 ELSE 0)
        n == YearDay(dt) - td.days - (IF s < 0 THEN 1 ELSE 0)
        date == FromYearDay(dt.year, n)
        second_of_day == IF s < 0 THEN s + 86400 ELSE s
    IN  [ year |-> date.year, month |-> date.month, day |-> date.day,
          hour |-> second_of_day \div 3600,
          minute |-> (second_of_day % 3600) \div 60,
          second |-> second_of_day % 60,
          microsecond |-> IF us < 0 THEN us + 1000000 ELSE us ]

\* TimeBarAggregator.get_start_time(), with now = self._clock.utc_now().
get_start_time(now, aggregation, step) ==
    CASE aggregation = "SECOND" ->
             datetime_sub(now, timedelta(0, 0, 0, now.second % step, now.microsecond))
      [] aggregation = "MINUTE" ->
             datetime_sub(now, timedelta(0, 0, now.minute % step, now.second,
                                         now.microsecond))
      [] aggregation = "HOUR" ->
             datetime_sub(now, timedelta(0, now.hour % step, now.minute, now.second,
                                         now.microsecond))
      [] aggregation = "DAY" ->
             datetime_sub(now, timedelta(now.day % step, now.hour, now.minute, now.second,
                                         now.microsecond))

\* TimeBarAggregator._get_interval()
_get_interval(aggregation, step) ==
    CASE aggregation = "SECOND" -> timedelta(0, 0, 0, 1 * step, 0)
      [] aggregation = "MINUTE" -> timedelta(0, 0, 1 * step, 0, 0)
      [] aggregation = "HOUR" -> timedelta(0, 1 * step, 0, 0, 0)
      [] aggregation = "DAY" -> timedelta(1 * step, 0, 0, 0, 0)

\* TimeBarAggregator._set_build_timer(): the timer the clock is given.
_set_build_timer(now, aggregation, step) ==
    [ aggregation |-> aggregation,
      step |-> step,
      interval |-> _get_interval(aggregation, step),
      start_time |-> get_start_time(now, aggregation, step),
      active |-> TRUE ]

\* ------------------------------------------------- behaviour: build timer

\* The times of day and the dates the clock is read at.
ClockTimesOfDay ==
    { [hour |-> 0, minute |-> 0, second |-> 0, microsecond |-> 0],
      [hour |-> 13, minute |-> 47, second |-> 31, microsecond |-> 500000],
      [hour |-> 23, minute |-> 59, second |-> 59, microsecond |-> 999999] }

ClockDates == [year : {2021}, month : {1, 3}, day : {1, 2, 31}]

ClockTimes ==
    { [ year |-> d.year, month |-> d.month, day |-> d.day,
        hour |-> t.hour, minute |-> t.minute, second |-> t.second,
        microsecond |-> t.microsecond ] : d \in ClockDates, t \in ClockTimesOfDay }

\* The days from the start of 2020 to the start of a year, and to a
\* datetime's date.
RECURSIVE DaysBeforeYear(_)
DaysBeforeYear(year) ==
    IF year <= 2020 THEN 0 ELSE DaysBeforeYear(year - 1) + DaysInYear(year - 1)

DayNumber(dt) == DaysBeforeYear(dt.year) + YearDay(dt)

\* a is earlier than b.
Earlier(a, b) ==
    \/ DayNumber(a) < DayNumber(b)
    \/ /\ DayNumber(a) = DayNumber(b)
       /\ \/ SecondOfDay(a) < SecondOfDay(b)
          \/ SecondOfDay(a) = SecondOfDay(b) /\ a.microsecond < b.microsecond

\* A time aggregator is constructed: its timer is set from the clock's time.
InitTimer ==
    \E now \in ClockTimes : \E aggregation \in TimeAggregations : \E step \in TimeSteps :
        /\ clock = now
        /\ build_timer = _set_build_timer(now, aggregation, step)
        /\ position = Absent
        /\ raised = "none"
        /\ aggregator = Absent
        /\ calls = 0
        /\ fed = Absent
        /\ book = Absent
        /\ applied = Absent
        /\ order = Absent
        /\ order_error = "none"

\* Time passes on the clock.
AdvanceClock ==
    /\ \E now \in ClockTimes : Earlier(clock, now) /\ clock' = now
    /\ UNCHANGED build_timer
    /\ UNCHANGED <<vars, barvars, bookvars, ordervars>>

\* TimeBarAggregator.stop(): the timer is cancelled.
Stop ==
    /\ build_timer.active
    /\ build_timer' = [build_timer EXCEPT !.active = FALSE]
    /\ UNCHANGED clock
    /\ UNCHANGED <<vars, barvars, bookvars, ordervars>>

NextTimer == AdvanceClock \/ Stop

SpecTimer == InitTimer /\ [][NextTimer]_allvars

\* ------------------------------------------------------------------ claims

\* The step just taken recorded a fill; AppliedFill is that fill.
FillApplied == Len(position'._events) = Len(position._events) + 1
AppliedFill == position'._events[Len(position'._events)]

\* The signed quantity of a fill, and the net of the first k fills of a log.
SignedQty(fill) == IF fill.order_side = "BUY" THEN fill.last_qty ELSE -fill.last_qty

RECURSIVE NetOfFirst(_, _)
NetOfFirst(events, k) == IF k = 0 THEN 0 ELSE NetOfFirst(events, k - 1) + SignedQty(events[k])

\* C1: after every applied fill (the constructing one included) the side is
\* the sign of net_qty: LONG iff net_qty > 0, SHORT iff net_qty < 0, FLAT iff
\* net_qty = 0.
C1_SideIsSignOfNetQty ==
    /\ position.side = "LONG" <=> position.net_qty > 0
    /\ position.side = "SHORT" <=> position.net_qty < 0
    /\ position.side = "FLAT" <=> position.net_qty = 0

\* A position opened LONG that a later SELL fill has flipped to SHORT.
C1_Witness ==
    /\ Len(position._events) >= 2
    /\ position._events[1].order_side = "BUY"
    /\ position.side = "SHORT"
    /\ position.net_qty < 0

\* C2: apply with a fill whose execution_id was already applied raises the
\* duplicate-execution error (KeyError) and leaves every field of the position
\* as it was, whatever else the fill carries.
C2_DuplicateRejected ==
    /\ [](\A j \in 1..Len(position._events) :
            \A fill \in Fills(position._events[j].execution_id, position.ts_last + 1)
                        \cup {position._events[j]} :
                apply(position, fill) = [pos |-> position, raised |-> "KeyError"])
    /\ [][raised' = "KeyError" => position' = position]_vars

\* A duplicate has been rejected by a position holding several fills.
C2_Witness == raised = "KeyError" /\ Len(position._events) >= 2

\* C3: after any sequence of accepted and rejected apply calls the execution
\* ids hold no duplicate, there is one execution id per recorded event, and
\* the log is append-only: an accepted call appends its fill, a rejected call
\* changes nothing, and no event is removed or reordered.
C3_AppendOnlyLog ==
    /\ [](/\ \A i, j \in 1..Len(position._events) :
                execution_ids_c(position)[i] = execution_ids_c(position)[j] => i = j
          /\ position._execution_ids = execution_ids_c(position))
    /\ [][/\ raised' = "KeyError" => position'._events = position._events
          /\ raised' = "none" =>
                \E fill \in NewFills : position'._events = Append(position._events, fill)]_vars

\* A full log after a rejected duplicate.
C3_Witness == raised = "KeyError" /\ Len(position._events) = MaxFills

\* The fill just applied opposes the position and is larger than the open
\* quantity: it flips the position.
FlipApplied ==
    /\ FillApplied
    /\ \/ position.net_qty > 0 /\ AppliedFill.order_side = "SELL"
       \/ position.net_qty < 0 /\ AppliedFill.order_side = "BUY"
    /\ AppliedFill.last_qty > Abs(position.net_qty)

\* The commission of a fill that counts against realized PnL.
CostCommission(self, fill) ==
    IF fill.commission.currency = self.cost_currency
    THEN fill.commission.amount ELSE DecInt(0)

\* C4: a fill that flips the position realizes PnL on the closed portion
\* only, the quantity open before the fill, minus the commission paid in cost
\* currency (LONG 5 @ 10 then SELL 8 @ 12: 5 * (12 - 10) * multiplier).
C4_FlipRealizesClosedPortion ==
    [][FlipApplied =>
        position'.realized_pnl.amount =
            DecSub(DecAdd(position.realized_pnl.amount,
                          _calculate_pnl(position, position.avg_px_open,
                                         DecInt(AppliedFill.last_px), Abs(position.net_qty))),
                   CostCommission(position, AppliedFill))]_vars

\* C5: after a fill flips the position, avg_px_open is the flipping fill's
\* last_px, the price at which the new open quantity was acquired.
C5_FlipResetsAvgPxOpen ==
    [][FlipApplied => position'.avg_px_open = DecInt(AppliedFill.last_px)]_vars

\* C6 as claimed: a closed position (side FLAT) rejects every fill and is
\* not mutated.
C6_ClosedPositionRejectsFills ==
    [][position.side = "FLAT" => position' = position /\ raised' # "none"]_vars

\* C6 amended: a fill with a new execution id applied to a closed position is
\* accepted: it is appended to the events and the position reopens in the
\* fill's direction, with ts_closed = 0 and duration_ns = 0.
C6_ClosedPositionReopens ==
    position.side = "FLAT" =>
        \A fill \in NewFills :
            LET r == apply(position, fill)
            IN  /\ r.raised = "none"
                /\ r.pos._events = Append(position._events, fill)
                /\ r.pos.side = side_from_order_side_c(fill.order_side)
                /\ r.pos.net_qty = SignedQty(fill)
                /\ r.pos.quantity = fill.last_qty
                /\ r.pos.ts_closed = 0
                /\ r.pos.duration_ns = 0

\* A position that was closed by its second fill and reopened by its third.
C6_Witness ==
    /\ Len(position._events) = 3
    /\ NetOfFirst(position._events, 2) = 0
    /\ position.side # "FLAT"
    /\ position.ts_closed = 0

\* C7: every applied fill adds its commission to the cumulative commission of
\* the commission's own currency and to no other, and realized_pnl is charged
\* with it if and only if that currency is the position's cost currency.
C7_CommissionByCurrency ==
    [][FillApplied =>
        LET fill == AppliedFill
            currency == fill.commission.currency
            held == IF currency \in DOMAIN position._commissions
                    THEN position._commissions[currency].amount ELSE DecInt(0)
            closing == \/ position.net_qty > 0 /\ fill.order_side = "SELL"
                       \/ position.net_qty < 0 /\ fill.order_side = "BUY"
            gross == IF closing THEN ClosingPnl(position, fill) ELSE DecInt(0)
            charged == IF currency = position.cost_currency
                       THEN fill.commission.amount ELSE DecInt(0)
        IN  /\ DOMAIN position'._commissions = DOMAIN position._commissions \cup {currency}
            /\ position'._commissions[currency] =
                   Money(DecAdd(held, fill.commission.amount), currency)
            /\ \A c \in DOMAIN position._commissions \ {currency} :
                   position'._commissions[c] = position._commissions[c]
            /\ position'.realized_pnl =
                   Money(DecSub(DecAdd(position.realized_pnl.amount, gross), charged),
                         position.cost_currency)]_vars

\* Commissions were paid in both currencies, one of them not the cost currency.
C7_Witness ==
    /\ DOMAIN position._commissions = Currencies
    /\ Len(position._events) >= 2

\* C8: net_qty is the sum of last_qty over the applied BUY fills minus the
\* sum over the applied SELL fills, and quantity = |net_qty|.
C8_NetQtyIsSumOfFills ==
    /\ position.net_qty = NetOfFirst(position._events, Len(position._events))
    /\ position.net_qty = position._buy_qty - position._sell_qty
    /\ position.quantity = Abs(position.net_qty)

\* Fills on both sides were applied and a quantity is left open.
C8_Witness ==
    /\ \E i, j \in 1..Len(position._events) :
          position._events[i].order_side = "BUY" /\ position._events[j].order_side = "SELL"
    /\ position.net_qty < 0
    /\ position.quantity > 0

\* The largest quantity the position has held over the first k fills.
RECURSIVE PeakOfFirst(_, _)
PeakOfFirst(events, k) ==
    IF k = 0 THEN 0
    ELSE LET before == PeakOfFirst(events, k - 1)
             now == Abs(NetOfFirst(events, k))
         IN  IF now > before THEN now ELSE before

\* C9: peak_qty never decreases and after every applied fill is the largest
\* value quantity has taken since construction (so peak_qty >= quantity).
C9_PeakQty ==
    /\ [](/\ position.peak_qty = PeakOfFirst(position._events, Len(position._events))
          /\ position.peak_qty >= position.quantity)
    /\ [][position'.peak_qty >= position.peak_qty]_vars

\* The quantity has come down from its peak.
C9_Witness ==
    /\ position.quantity > 0
    /\ position.peak_qty > position.quantity

\* C10: after every applied fill ts_last is that fill's ts_event; a position
\* FLAT after the fill has ts_closed = the fill's ts_event and duration_ns =
\* ts_closed - ts_opened; a position open after the fill has ts_closed = 0
\* and duration_ns = 0.
C10_CloseTimes ==
    LET last == position._events[Len(position._events)]
    IN  /\ position.ts_last = last.ts_event
        /\ position.side = "FLAT" =>
              /\ position.ts_closed = last.ts_event
              /\ position.duration_ns = position.ts_closed - position.ts_opened
        /\ position.side \in {"LONG", "SHORT"} =>
              /\ position.ts_closed = 0
              /\ position.duration_ns = 0

\* A position closed some time after it was opened.
C10_Witness ==
    /\ position.side = "FLAT"
    /\ position.ts_closed > position.ts_opened
    /\ position.duration_ns > 0

\* C11: unrealized_pnl(last) answers in the position's cost currency in every
\* state, the FLAT one included, so that total_pnl(last) adds two amounts of
\* one currency and is the sum of realized and unrealized PnL.
C11_UnrealizedPnlInCostCurrency ==
    \A last \in Prices :
        /\ unrealized_pnl(position, last).currency = position.cost_currency
        /\ unrealized_pnl(position, last).currency = position.realized_pnl.currency
        /\ total_pnl(position, last).currency = position.cost_currency
        /\ total_pnl(position, last).amount =
               DecAdd(position.realized_pnl.amount, unrealized_pnl(position, last).amount)

\* -------------------------------------------------- claims: bar aggregators

\* The bars the handler has received, and their number.
Bars == aggregator._handler
NBars == Len(aggregator._handler)

\* The ticks that come late / in order at the present state, of any content.
LateTicks ==
    [ price : TickPrices, size : TickSizes,
      ts_event : 0 .. (aggregator._builder.ts_last - 1) ]
InOrderTicks == { tick \in Ticks : tick.ts_event >= aggregator._builder.ts_last }

\* C12: every bar an aggregator emits has low <= open <= high,
\* low <= close <= high and volume >= 0 (and carries prices), whatever
\* updates, resets and partial bar came before.
C12_BarsWellFormed ==
    \A i \in 1..NBars :
        /\ Bars[i].low # NoPrice
        /\ Bars[i].low <= Bars[i].open /\ Bars[i].open <= Bars[i].high
        /\ Bars[i].low <= Bars[i].close /\ Bars[i].close <= Bars[i].high
        /\ Bars[i].volume >= 0

C12_Witness ==
    /\ aggregator.kind = "TIME"
    /\ aggregator._builder._partial_set
    /\ fed.ticks >= 1
    /\ \E i \in 1..NBars : Bars[i].low < Bars[i].close /\ Bars[i].close < Bars[i].high

\* C13: the ts_event of the bars one aggregator emits strictly increases
\* from each bar to the next.
C13_BarTimesStrictlyIncrease ==
    \A i \in 1..(NBars - 1) : Bars[i].ts_event < Bars[i + 1].ts_event

\* C14: a tick whose ts_event is before the builder's ts_last is dropped by
\* every aggregator: no bar is emitted and neither the builder nor the
\* aggregator (cumulative value, pending build, close times) changes.
C14_LateTickDropped ==
    \A tick \in LateTicks : handle_trade_tick(aggregator, tick) = aggregator

\* C15: a tick aggregator with step >= 1 holds count < step after every
\* tick; after n ticks accepted in order it has emitted exactly n div step
\* bars, each built from exactly step updates (n = bars * step + count),
\* and each accepted tick moves count to (count + 1) mod step.
C15_TickBarsEveryStep ==
    aggregator.kind = "TICK" =>
        /\ aggregator.step >= 1
        /\ aggregator._builder.count < aggregator.step
        /\ NBars = fed.ticks \div aggregator.step
        /\ fed.ticks = NBars * aggregator.step + aggregator._builder.count
        /\ \A tick \in InOrderTicks :
              LET a == handle_trade_tick(aggregator, tick)
              IN  /\ a._builder.count = (aggregator._builder.count + 1) % aggregator.step
                  /\ Len(a._handler) = (fed.ticks + 1) \div aggregator.step

C15_Witness ==
    /\ aggregator.kind = "TICK"
    /\ aggregator.step = 2
    /\ fed.ticks = 3
    /\ NBars = 1
    /\ aggregator._builder.count = 1

RECURSIVE VolumeOfFirst(_)
\* The total volume of the first k emitted bars.
VolumeOfFirst(k) == IF k = 0 THEN 0 ELSE VolumeOfFirst(k - 1) + Bars[k].volume

\* C16: a volume aggregator fed in-order ticks emits bars of volume exactly
\* step, keeps builder.volume < step, and conserves volume (total fed =
\* volume of the bars + builder.volume); an update of size s arriving on a
\* builder holding v emits (v + s) div step bars and leaves (v + s) mod step
\* in the builder at the update's price and ts_event.
C16_VolumeBarsExactAndConserved ==
    (aggregator.kind = "VOLUME" /\ fed.late = 0) =>
        /\ \A i \in 1..NBars : Bars[i].volume = aggregator.step
        /\ aggregator._builder.volume < aggregator.step
        /\ fed.volume = VolumeOfFirst(NBars) + aggregator._builder.volume
        /\ \A tick \in InOrderTicks :
              LET a == handle_trade_tick(aggregator, tick)
                  v == aggregator._builder.volume
              IN  /\ Len(a._handler) - NBars = (v + tick.size) \div aggregator.step
                  /\ a._builder.volume = (v + tick.size) % aggregator.step
                  /\ a._builder._close = tick.price
                  /\ a._builder.ts_last = tick.ts_event

C16_Witness ==
    /\ aggregator.kind = "VOLUME"
    /\ fed.late = 0
    /\ fed.ticks = 3
    /\ NBars = 4
    /\ Bars[3].ts_event = Bars[4].ts_event

\* C17: a value aggregator fed in-order ticks keeps 0 <= cum_value < step;
\* an update of value price*size arriving on cum_value c emits
\* (c + price*size) div step bars, cum_value being reset to 0 at each and
\* left at the remainder; and cum_value equals the sum of price*size of the
\* updates folded into the builder since the last bar, which after a bar is
\* the update's price times the volume the builder holds.
C17_CumValueTracksBuilder ==
    (aggregator.kind = "VALUE" /\ fed.late = 0) =>
        /\ aggregator._cum_value.n >= 0
        /\ DecLess(aggregator._cum_value, DecInt(aggregator.step))
        /\ \A tick \in InOrderTicks :
              LET a == handle_trade_tick(aggregator, tick)
                  total == DecAdd(aggregator._cum_value, DecInt(tick.price * tick.size))
                  bars == total.n \div (total.d * aggregator.step)
              IN  /\ Len(a._handler) - NBars = bars
                  /\ a._cum_value = DecSub(total, DecInt(bars * aggregator.step))
                  /\ (bars > 0 =>
                         a._cum_value = DecInt(tick.price * a._builder.volume))

\* The timer's next boundary, and a price-less description of the builder.
Boundary == aggregator._clock.timer.next_time_ns
Builder == aggregator._builder

\* No tick was folded into the builder and no partial bar set since the
\* last bar was emitted.
NoUpdateSinceBar == NBars >= 1 /\ Builder.count = 0 /\ fed.partial_at < NBars

\* C18: once the builder of a time aggregator has received an update, every
\* timer boundary that passes produces exactly one bar, stamped with the
\* boundary; when nothing was folded into the builder since the previous
\* bar, that bar has open = high = low = close = the previous bar's close
\* and volume 0.
C18_EveryBoundaryOneBar ==
    (aggregator.kind = "TIME" /\ fed.ticks >= 1) =>
        LET a == timer_fires(aggregator)
            bar == a._handler[NBars + 1]
        IN  /\ Len(a._handler) = NBars + 1
            /\ bar.ts_event = Boundary
            /\ NoUpdateSinceBar =>
                  /\ bar.open = Bars[NBars].close /\ bar.high = Bars[NBars].close
                  /\ bar.low = Bars[NBars].close /\ bar.close = Bars[NBars].close
                  /\ bar.volume = 0

C18_Witness ==
    /\ aggregator.kind = "TIME"
    /\ fed.ticks = 1
    /\ calls = 3
    /\ NBars = 2
    /\ Bars[1].volume > 0
    /\ Bars[2].volume = 0
    /\ Bars[2].open = Bars[1].close
    /\ Bars[2].ts_event = Bars[1].ts_event + aggregator.interval_ns

\* The flag and close time of a pending build-on-next-tick.
Pending(a) == <<a._build_on_next_tick, a._stored_close_ns>>

\* An update that reaches the end of _apply_update: any under a real clock,
\* under a test clock one before next_close_ns.
FallsThrough(tick) ==
    ~aggregator._clock.is_test_clock \/ tick.ts_event < aggregator.next_close_ns

\* C19 (as claimed): at a boundary a time aggregator emits a bar at once
\* only if its builder was updated since the last emitted bar, and else
\* emits nothing and sets build_on_next_tick with the stored close time; the
\* next update then emits the bar with that close time and clears the flag.
C19_EmitsOnlyIfUpdatedSinceBar ==
    aggregator.kind = "TIME" =>
        /\ LET a == timer_fires(aggregator)
           IN  IF Builder.count > 0
               THEN /\ Len(a._handler) = NBars + 1
                    /\ a._handler[NBars + 1].ts_event = Boundary
               ELSE /\ a._handler = Bars
                    /\ Pending(a) = <<TRUE, aggregator.next_close_ns>>
        /\ aggregator._build_on_next_tick =>
              \A tick \in InOrderTicks :
                  LET a == handle_trade_tick(aggregator, tick)
                  IN  /\ Len(a._handler) = NBars + 1
                      /\ a._handler[NBars + 1].ts_event = aggregator._stored_close_ns
                      /\ Pending(a) = <<FALSE, 0>>

\* C19 (amended): at a boundary a time aggregator emits a bar at once, with
\* the boundary as ts_event, exactly if its builder is initialized (it has
\* ever received an update or a partial bar); else it emits nothing and sets
\* build_on_next_tick, storing next_close_ns.  A pending bar is emitted, with
\* ts_event the stored close time and the flag cleared, by the next update
\* that reaches the end of _apply_update; an update at or past next_close_ns
\* under a test clock leaves the flag set.
C19_EmitsIfInitialized ==
    aggregator.kind = "TIME" =>
        /\ LET a == timer_fires(aggregator)
           IN  IF Builder.initialized
               THEN /\ Len(a._handler) = NBars + 1
                    /\ a._handler[NBars + 1].ts_event = Boundary
                    /\ Pending(a) = Pending(aggregator)
               ELSE /\ a._handler = Bars
                    /\ Pending(a) = <<TRUE, aggregator.next_close_ns>>
        /\ aggregator._build_on_next_tick =>
              \A tick \in InOrderTicks :
                  LET a == handle_trade_tick(aggregator, tick)
                  IN  IF FallsThrough(tick)
                      THEN /\ Len(a._handler) = NBars + 1
                           /\ a._handler[NBars + 1].ts_event = aggregator._stored_close_ns
                           /\ Pending(a) = <<FALSE, 0>>
                      ELSE a._build_on_next_tick

\* A boundary passed on an empty builder, and the next update brought the
\* bar out with the stored close time.
C19_Witness ==
    /\ aggregator.kind = "TIME"
    /\ calls = 2
    /\ fed.ticks = 1
    /\ NBars = 1
    /\ Bars[1].ts_event = aggregator.interval_ns
    /\ Bars[1].volume = fed.volume
    /\ ~aggregator._build_on_next_tick
    /\ aggregator._clock.timer.next_time_ns = 2 * aggregator.interval_ns
    /\ ~aggregator._clock.is_test_clock

\* The in-order ticks that arrive past, on and before next_close_ns.
TicksPastClose == { tick \in InOrderTicks : aggregator.next_close_ns < tick.ts_event }
TicksOnClose == { tick \in InOrderTicks : aggregator.next_close_ns = tick.ts_event }
TicksBeforeClose == { tick \in InOrderTicks : tick.ts_event < aggregator.next_close_ns }

\* The bar an update leaves closed first, the update going into the builder
\* that follows it.
ClosedThenFolded(a, tick) ==
    LET r == build(Builder, Boundary)
    IN  /\ a._handler = Append(Bars, r.bar)
        /\ a._builder = update(r.builder, tick.price, tick.size, tick.ts_event)

\* The update folded into the builder and the bar closed with it inside.
FoldedThenClosed(a, tick) ==
    LET r == build(update(Builder, tick.price, tick.size, tick.ts_event), Boundary)
    IN  /\ a._handler = Append(Bars, r.bar)
        /\ a._builder = r.builder

\* An update before next_close_ns closes no bar, unless one is pending.
NoBarUnlessPending(a, tick) ==
    IF aggregator._build_on_next_tick
    THEN Len(a._handler) = NBars + 1
    ELSE /\ a._handler = Bars
         /\ a._builder = update(Builder, tick.price, tick.size, tick.ts_event)

C21_SetPartialOnce ==
    (aggregator.kind = "TIME" /\ Builder._partial_set) =>
        \A partial_bar \in PartialBars :
            /\ set_partial(Builder, partial_bar) = Builder
            /\ TimeBarAggregator_set_partial(aggregator, partial_bar) = aggregator

\* Two partial bars were set with a tick between them.
C21_Witness ==
    /\ aggregator.kind = "TIME"
    /\ Builder._partial_set
    /\ calls = 3
    /\ fed.ticks = 1
    /\ fed.late = 0
    /\ NBars = 0
    /\ Boundary = aggregator.interval_ns
    /\ Builder.count = 1

\* C22: a quote tick sets the bid to (tick.bid, tick.bid_size) and the ask to
\* (tick.ask, tick.ask_size); a trade tick with a SELL aggressor sets the bid
\* to the trade's price and size, one with a BUY aggressor the ask; a trade
\* tick never changes the size of the side it does not touch, and changes
\* that side's price only when the crossing rule applies (the side is there
\* and the trade's price meets or passes its price).
C22_TicksSetSides ==
    /\ \A tick \in QuoteTicks :
          LET b == update_tick(book, tick)
          IN  /\ best_bid_price(b) = tick.bid /\ best_bid_qty(b) = tick.bid_size
              /\ best_ask_price(b) = tick.ask /\ best_ask_qty(b) = tick.ask_size
    /\ \A tick \in TradeTicks :
          LET b == update_tick(book, tick)
          IN  /\ tick.aggressor_side = "SELL" =>
                    /\ best_bid_price(b) = tick.price /\ best_bid_qty(b) = tick.size
                    /\ best_ask_qty(b) = best_ask_qty(book)
                    /\ best_ask_price(b) # best_ask_price(book) =>
                           (Len(book.asks) > 0 /\ tick.price >= best_ask_price(book))
              /\ tick.aggressor_side = "BUY" =>
                    /\ best_ask_price(b) = tick.price /\ best_ask_qty(b) = tick.size
                    /\ best_bid_qty(b) = best_bid_qty(book)
                    /\ best_bid_price(b) # best_bid_price(book) =>
                           (Len(book.bids) > 0 /\ tick.price <= best_bid_price(book))

\* A SELL trade at 1 for 1 has set the bid of a book whose bid was 2 for 2,
\* and left the ask, 3 for 2, as it was.
C22_Witness ==
    /\ Len(book.bids) > 0 /\ Len(book.asks) > 0
    /\ applied.type = "TradeTick" /\ applied.aggressor_side = "SELL"
    /\ applied.price = 1 /\ applied.size = 1
    /\ best_bid_price(book) = 1 /\ best_bid_qty(book) = 1
    /\ best_ask_price(book) = 3 /\ best_ask_qty(book) = 2
    /\ \E tick \in QuoteTicks : tick.bid = 2 /\ tick.bid_size = 2 /\
          update_tick(update_tick(NewBook, tick), applied) = book

\* Both sides of the book have a quote.
BothSides(b) == Len(b.bids) > 0 /\ Len(b.asks) > 0

\* C23: after any trade tick on a book that has both sides, the best bid is
\* at most the best ask: if the new price of the side the trade touches meets
\* or passes the opposite quote, the untouched side's price is set equal to
\* it, otherwise the untouched side keeps its price.
C23_TradeTickUncrosses ==
    BothSides(book) =>
        \A tick \in TradeTicks :
            LET b == update_tick(book, tick)
            IN  /\ best_bid_price(b) <= best_ask_price(b)
                /\ tick.aggressor_side = "SELL" =>
                      best_ask_price(b) = IF tick.price >= best_ask_price(book)
                                          THEN tick.price
                                          ELSE best_ask_price(book)
                /\ tick.aggressor_side = "BUY" =>
                      best_bid_price(b) = IF tick.price <= best_bid_price(book)
                                          THEN tick.price
                                          ELSE best_bid_price(book)

\* A book quoted 1 bid, 2 ask has taken a SELL trade at 3: the bid is 3 and
\* the ask was moved to 3 with it, keeping its size.
C23_Witness ==
    /\ BothSides(book)
    /\ applied.type = "TradeTick" /\ applied.aggressor_side = "SELL" /\ applied.price = 3
    /\ best_bid_price(book) = 3 /\ best_ask_price(book) = 3
    /\ \E tick \in QuoteTicks :
          /\ tick.bid = 1 /\ tick.ask = 2 /\ best_ask_qty(book) = tick.ask_size
          /\ update_tick(update_tick(NewBook, tick), applied) = book

\* C24: after every update_tick, in any sequence of quote and trade ticks,
\* the book is not crossed: once both sides are there, the best bid is below
\* the best ask (crossed means best bid >= best ask).
C24_NeverCrossed ==
    BothSides(book) => best_bid_price(book) < best_ask_price(book)

\* A ladder of at most one level, which holds one order at the level's price.
OneOrderLadder(ladder) ==
    /\ Len(ladder) <= 1
    /\ \A i \in 1..Len(ladder) :
          /\ Len(ladder[i].orders) = 1
          /\ ladder[i].price = ladder[i].orders[1].price

\* C25: the book holds at most one bid level with one order and at most one
\* ask level with one order, each level's price equal to its order's price;
\* a quote tick leaves exactly one of each, and no tick takes a level away.
C25_OneLevelOneOrder ==
    /\ OneOrderLadder(book.bids)
    /\ OneOrderLadder(book.asks)
    /\ \A tick \in QuoteTicks :
          LET b == update_tick(book, tick)
          IN  Len(b.bids) = 1 /\ Len(b.asks) = 1
    /\ \A tick \in QuoteTicks \cup TradeTicks :
          LET b == update_tick(book, tick)
          IN  Len(b.bids) >= Len(book.bids) /\ Len(b.asks) >= Len(book.asks)

\* A book quoted 1 bid, 2 ask for 1 has taken a BUY trade at 3 for 2: still
\* one level and one order a side, the ask's level and order both at 3.
C25_Witness ==
    /\ Len(book.bids) = 1 /\ Len(book.asks) = 1
    /\ applied.type = "TradeTick" /\ applied.aggressor_side = "BUY"
    /\ applied.price = 3 /\ applied.size = 2
    /\ book.asks[1].price = 3 /\ book.asks[1].orders = <<BookOrder(3, 2, "SELL")>>
    /\ book.bids[1].price = 1
    /\ \E tick \in QuoteTicks :
          /\ tick.bid = 1 /\ tick.ask = 2 /\ tick.ask_size = 1
          /\ update_tick(update_tick(NewBook, tick), applied) = book

\* The events that may be passed to an order.
OrderEvents(self) == PlainEvents \cup AcceptedEvents \cup UpdatedEvents \cup FilledEvents(self)

\* C26: an Updated event applied to a stop-limit order that is not triggered
\* replaces the trigger price with the event's price and leaves the limit
\* price; applied to a triggered order it replaces the limit price and
\* leaves the trigger; is_triggered is false after construction, becomes
\* true when a Triggered event is applied, and is changed by nothing else.
C26_UpdatedPriceByTrigger ==
    order # NoOrder =>
        /\ order.event_count = 1 => ~order.is_triggered
        /\ \A event \in UpdatedEvents :
              LET r == apply_event(order, event)
              IN  r.raised = "none" =>
                     IF order.is_triggered
                     THEN r.order.price = event.price /\ r.order.trigger = order.trigger
                     ELSE r.order.trigger = event.price /\ r.order.price = order.price
        /\ \A event \in OrderEvents(order) :
              LET r == apply_event(order, event)
              IN  r.order.is_triggered =
                     (order.is_triggered \/ (event.type = "Triggered" /\ r.raised = "none"))

\* An order made with limit 10 and trigger 12 was updated to 11 before it was
\* triggered and to 13 after: trigger 11, limit 13.
C26_Witness ==
    /\ order # NoOrder
    /\ order.is_triggered /\ order.status = "TRIGGERED"
    /\ order.trigger = 11 /\ order.price = 13
    /\ order.event_count = 6 /\ order_error = "none"

\* C27: in every reachable state of an order 0 <= filled_qty <= quantity and
\* leaves_qty + filled_qty = quantity, also after an Updated event that
\* changes the quantity.
C27_QuantitiesConsistent ==
    order # NoOrder =>
        /\ 0 <= order.filled_qty
        /\ order.filled_qty <= order.quantity
        /\ order.leaves_qty + order.filled_qty = order.quantity

\* C28: an Updated event whose quantity is smaller than the order's
\* filled_qty is rejected and leaves the order (quantity, price, trigger,
\* venue_order_id, status) as it was.
C28_UpdatedBelowFilledRejected ==
    order # NoOrder =>
        \A event \in UpdatedEvents :
            event.quantity < order.filled_qty =>
                LET r == apply_event(order, event)
                IN  /\ r.raised # "none"
                    /\ r.order.quantity = order.quantity
                    /\ r.order.price = order.price
                    /\ r.order.trigger = order.trigger
                    /\ r.order.venue_order_id = order.venue_order_id
                    /\ r.order.status = order.status

\* C29: constructing a stop-limit order with a display_qty that is negative
\* or greater than the quantity raises a validation error and makes no
\* order; with display_qty absent or 0 <= display_qty <= quantity the order
\* is made with that display_qty and is_triggered false.
C29_DisplayQtyValidated ==
    /\ order = NoOrder => order_error = "ValueError"
    /\ (order # NoOrder /\ order.event_count = 1) =>
          /\ ~order.is_triggered
          /\ order.display_qty = NoQuantity
                \/ (0 <= order.display_qty /\ order.display_qty <= order.quantity)
    /\ \A quantity \in OrderQuantities : \A price \in LimitPrices :
       \A trigger \in TriggerPrices : \A display_qty \in DisplayQuantities(quantity) :
          LET r == StopLimitOrder(quantity, price, trigger, display_qty)
          IN  IF display_qty # NoQuantity /\ (display_qty < 0 \/ display_qty > quantity)
              THEN r.raised = "ValueError" /\ r.order = NoOrder
              ELSE /\ r.raised = "none"
                   /\ r.order.display_qty = display_qty
                   /\ r.order.quantity = quantity
                   /\ ~r.order.is_triggered

\* The constructor was given a display_qty above the quantity, and one below
\* zero: it raised and there is no order.
C29_Witness ==
    /\ order = NoOrder
    /\ order_error = "ValueError"
    /\ \E quantity \in OrderQuantities :
          /\ StopLimitOrder(quantity, 10, 12, quantity + 1).order = order
          /\ StopLimitOrder(quantity, 10, 12, -1).order = order

TerminalStatuses == {"DENIED", "REJECTED", "CANCELED", "EXPIRED", "FILLED"}

\* Filled events of any size, new or sent again.
AnyFilledEvents(self) ==
    [ type : {"Filled"},
      execution_id : 1..(Len(self._execution_ids) + 1),
      last_qty : 1..3 ]

\* C30: DENIED, REJECTED, CANCELED, EXPIRED and FILLED are terminal: every
\* event passed to apply on an order in one of them is rejected, and leaves
\* the status, and the order, as it was.
C30_TerminalStatesAbsorb ==
    (order # NoOrder /\ order.status \in TerminalStatuses) =>
        \A event \in OrderEvents(order) \cup AnyFilledEvents(order) :
            LET r == apply_event(order, event)
            IN  /\ r.raised # "none"
                /\ r.order.status = order.status
                /\ r.order = order

\* An order for 3 was filled by 1 and by 2, and an event passed to it
\* afterwards was rejected.
C30_Witness ==
    /\ order # NoOrder
    /\ order.status = "FILLED"
    /\ order.quantity = 3 /\ order.filled_qty = 3 /\ Len(order._execution_ids) = 2
    /\ order_error = "InvalidStateTrigger"

\* The fields of an order one can observe, the length of its event log aside.
Observable(self) == [self EXCEPT !.event_count = 0]

C32_FilledStatusByQuantity ==
    order # NoOrder =>
        \A event \in AnyFilledEvents(order) :
            LET r == apply_event(order, event)
            IN  r.raised = "none" =>
                   /\ r.order.filled_qty = order.filled_qty + event.last_qty
                   /\ r.order.status = IF r.order.filled_qty = r.order.quantity
                                       THEN "FILLED"
                                       ELSE "PARTIALLY_FILLED"

\* An accepted order for 3 was filled by 1, then by 2, and is FILLED.
C32_Witness ==
    /\ order # NoOrder
    /\ order.status = "FILLED" /\ order_error = "none"
    /\ order.quantity = 3 /\ order.filled_qty = 3 /\ order.leaves_qty = 0
    /\ Len(order._execution_ids) = 2 /\ order.event_count = 5
    /\ order.venue_order_id = "V1"

\* The fill opposes the position and is no larger than the open quantity.
ClosesWithin(self, fill) ==
    /\ \/ self.side = "LONG" /\ fill.order_side = "SELL"
       \/ self.side = "SHORT" /\ fill.order_side = "BUY"
    /\ fill.last_qty <= self.quantity

\* C33: for a non-inverse instrument, a closing fill that does not exceed the
\* open quantity adds to realized_pnl last_qty * multiplier * (last_px -
\* avg_px_open) when the position was LONG before the fill and last_qty *
\* multiplier * (avg_px_open - last_px) when it was SHORT, minus the
\* commission when that is in the cost currency.
C33_ClosingFillRealizedPnl ==
    ~position.is_inverse =>
        \A fill \in NewFills :
            ClosesWithin(position, fill) =>
                LET after == apply(position, fill).pos
                    move == IF position.side = "LONG"
                            THEN DecSub(DecInt(fill.last_px), position.avg_px_open)
                            ELSE DecSub(position.avg_px_open, DecInt(fill.last_px))
                    gross == DecMul(DecInt(fill.last_qty * position.multiplier), move)
                    charge == IF fill.commission.currency = position.cost_currency
                              THEN fill.commission.amount
                              ELSE DecInt(0)
                IN  /\ after.realized_pnl.currency = position.cost_currency
                    /\ DecSub(after.realized_pnl.amount, position.realized_pnl.amount)
                          = DecSub(gross, charge)

\* A standard position opened by SELL 8 @ 12 took BUY 5 @ 10, both charged 1
\* in the cost currency: realized 5 * 2 * (12 - 10) - 2 = 18, still SHORT 3.
C33_Witness ==
    /\ ~position.is_inverse
    /\ Len(position._events) = 2
    /\ position._events[1].order_side = "SELL" /\ position._events[1].last_qty = 8
    /\ position._events[1].last_px = 12
    /\ position._events[2].order_side = "BUY" /\ position._events[2].last_qty = 5
    /\ position._events[2].last_px = 10
    /\ position.side = "SHORT" /\ position.net_qty = -3
    /\ position.realized_pnl = Money(DecInt(18), position.cost_currency)

\* The opening quantity a position holds after the first k fills of a log, and
\* its cost: a fill on the position's side, or on a flat position, opens its
\* whole quantity; a partial close opens nothing; a fill that closes the
\* position leaves no opening quantity; a fill that flips it opens what it
\* does not close.
RECURSIVE OpeningOfFirst(_, _)
OpeningOfFirst(events, k) ==
    IF k = 0 THEN [net |-> 0, cost |-> 0, qty |-> 0]
    ELSE LET before == OpeningOfFirst(events, k - 1)
             fill == events[k]
             net == before.net + SignedQty(fill)
         IN  IF before.net = 0 \/ (before.net > 0) = (fill.order_side = "BUY")
             THEN [ net |-> net,
                    cost |-> before.cost + fill.last_px * fill.last_qty,
                    qty |-> before.qty + fill.last_qty ]
             ELSE IF fill.last_qty < Abs(before.net)
             THEN [before EXCEPT !.net = net]
             ELSE [ net |-> net,
                    cost |-> fill.last_px * Abs(net),
                    qty |-> Abs(net) ]

\* The last fill of the log opened the position or added to it.
LastFillOpens ==
    LET k == Len(position._events)
        before == NetOfFirst(position._events, k - 1)
    IN  before = 0 \/ (before > 0) = (position._events[k].order_side = "BUY")

\* C34: after a fill on the side of the position's direction (opening or
\* adding), avg_px_open is the quantity-weighted mean of last_px over all
\* opening quantity of the position, whatever fills came before.
C34_AvgPxOpenIsOpeningMean ==
    LastFillOpens =>
        LET opening == OpeningOfFirst(position._events, Len(position._events))
        IN  position.avg_px_open = Dec(opening.cost, opening.qty)

\* The quantity closed, and its cost, of the direction the position holds or
\* held last after the first k fills of a log: a fill that opposes the
\* position closes its quantity, up to the open quantity, at its price; the
\* count starts anew when a flat position is opened and after a fill that
\* flipped the position.
RECURSIVE ClosedOfFirst(_, _)
ClosedOfFirst(events, k) ==
    IF k = 0 THEN [net |-> 0, cost |-> 0, qty |-> 0, flipped |-> FALSE]
    ELSE LET before == ClosedOfFirst(events, k - 1)
             fill == events[k]
             net == before.net + SignedQty(fill)
             cost == IF before.flipped THEN 0 ELSE before.cost
             qty == IF before.flipped THEN 0 ELSE before.qty
             closed == IF fill.last_qty < Abs(before.net) THEN fill.last_qty ELSE Abs(before.net)
         IN  IF before.net = 0
             THEN [net |-> net, cost |-> 0, qty |-> 0, flipped |-> FALSE]
             ELSE IF (before.net > 0) = (fill.order_side = "BUY")
             THEN [net |-> net, cost |-> cost, qty |-> qty, flipped |-> FALSE]
             ELSE [ net |-> net,
                    cost |-> cost + fill.last_px * closed,
                    qty |-> qty + closed,
                    flipped |-> fill.last_qty > Abs(before.net) ]

\* The last fill of the log opposed the position it met.
LastFillCloses ==
    LET k == Len(position._events)
        before == NetOfFirst(position._events, k - 1)
    IN  before # 0 /\ (before > 0) # (position._events[k].order_side = "BUY")

\* C35: after any closing fill, avg_px_close is the quantity-weighted mean of
\* last_px over the closed quantity of the direction the fill closes,
\* whatever fills came before, flips and reopenings included.
C35_AvgPxCloseIsClosedMean ==
    LastFillCloses =>
        LET closed == ClosedOfFirst(position._events, Len(position._events))
        IN  position.avg_px_close = Dec(closed.cost, closed.qty)

\* The builder `after` is the builder `before` reset: open, high and low at
\* the close, no volume and no count, and the close, ts_last and the two
\* flags as they were.
IsReset(before, after) ==
    /\ after._open = before._close
    /\ after._high = before._close
    /\ after._low = before._close
    /\ after.volume = 0
    /\ after.count = 0
    /\ after._close = before._close
    /\ after.ts_last = before.ts_last
    /\ after.initialized = before.initialized
    /\ after._partial_set = before._partial_set

RECURSIVE VolumeLoopEnds(_, _, _, _, _)
VolumeLoopEnds(self, price, size_update, ts_event, passes) ==
    IF ~(size_update > 0) THEN TRUE
    ELSE IF passes = 0 THEN FALSE
    ELSE LET r == VolumeBarAggregator_body(self, price, size_update, ts_event)
         IN  \/ r.break
             \/ /\ r.size_update >= 0
                /\ r.size_update < size_update
                /\ VolumeLoopEnds(r.self, price, r.size_update, ts_event, passes - 1)

\* The same of the value aggregator, whose size_update is a Decimal.
RECURSIVE ValueLoopEnds(_, _, _, _, _)
ValueLoopEnds(self, price, size_update, ts_event, passes) ==
    IF ~(size_update.n > 0) THEN TRUE
    ELSE IF passes = 0 THEN FALSE
    ELSE LET r == ValueBarAggregator_body(self, price, size_update, ts_event)
         IN  \/ r.break
             \/ /\ r.size_update.n >= 0
                /\ DecLess(r.size_update, size_update)
                /\ ValueLoopEnds(r.self, price, r.size_update, ts_event, passes - 1)

\* C37: for every update with size > 0 (step > 0, price > 0), whatever
\* volume or cumulative value the aggregator holds and whether or not the
\* update comes late, the splitting loop of the volume and of the value
\* aggregator ends, and its assertion size_update >= 0 holds in every pass.
C37_SplitLoopsEnd ==
    /\ aggregator.kind = "VOLUME" =>
          \A tick \in Ticks :
              VolumeLoopEnds(aggregator, tick.price, tick.size, tick.ts_event, MaxIterations)
    /\ aggregator.kind = "VALUE" =>
          \A tick \in Ticks :
              ValueLoopEnds(aggregator, tick.price, DecInt(tick.size), tick.ts_event,
                            MaxIterations)

\* A volume aggregator of step 3 holding volume 2 took a tick of size 4: the
\* loop split it in two passes and broke in the third, giving two bars and
\* leaving nothing.
C37_Witness ==
    /\ aggregator.kind = "VOLUME" /\ aggregator.step = 3
    /\ fed.ticks = 3 /\ fed.late = 0 /\ fed.volume = 6
    /\ NBars = 2 /\ Builder.volume = 0 /\ Builder.count = 0

\* C38: under a test clock, handling an update closes a bar for every
\* boundary that has elapsed before the update is applied: afterwards the
\* update's ts_event is at or before next_close_ns, and a bar closed while
\* handling it is stamped at or after the updates the builder held.
C38_EveryElapsedBoundaryClosed ==
    (aggregator.kind = "TIME" /\ aggregator._clock.is_test_clock) =>
        \A tick \in InOrderTicks :
            LET a == handle_trade_tick(aggregator, tick)
            IN  /\ tick.ts_event <= a.next_close_ns
                /\ \A i \in (NBars + 1)..Len(a._handler) :
                       Builder.count > 0 => a._handler[i].ts_event >= Builder.ts_last

\* C39: next_close_ns of a time aggregator always equals the next fire time
\* of its timer, whether bars are closed from _apply_update or the clock
\* delivers the timer's events to _build_event; so the close time stored
\* with build_on_next_tick is the boundary that fired last.
C39_NextCloseIsTimerNext ==
    aggregator.kind = "TIME" =>
        /\ aggregator.next_close_ns = Boundary
        /\ aggregator._build_on_next_tick =>
               aggregator._stored_close_ns = Boundary - aggregator.interval_ns

\* ------------------------------------------------------ claims: build timer

\* The whole seconds and the microseconds from t to now.
ElapsedSeconds(t, now) ==
    (DayNumber(now) - DayNumber(t)) * 86400 + SecondOfDay(now) - SecondOfDay(t)

\* The seconds in the unit of an aggregation.
UnitSeconds(aggregation) ==
    CASE aggregation = "SECOND" -> 1
      [] aggregation = "MINUTE" -> 60
      [] aggregation = "HOUR" -> 3600
      [] aggregation = "DAY" -> 86400

\* The field of the aggregation's unit, and the fields below it.
UnitField(t, aggregation) ==
    CASE aggregation = "SECOND" -> t.second
      [] aggregation = "MINUTE" -> t.minute
      [] aggregation = "HOUR" -> t.hour
      [] aggregation = "DAY" -> t.day

FieldsBelow(t, aggregation) ==
    CASE aggregation = "SECOND" -> <<t.microsecond>>
      [] aggregation = "MINUTE" -> <<t.second, t.microsecond>>
      [] aggregation = "HOUR" -> <<t.minute, t.second, t.microsecond>>
      [] aggregation = "DAY" -> <<t.hour, t.minute, t.second, t.microsecond>>

\* C40: for SECOND, MINUTE, HOUR and DAY aggregation and any step >= 1,
\* get_start_time returns a time t at or before the clock's time, less than
\* step units before it, with every field below the unit zero and the unit
\* field a multiple of step.
C40_StartTimeOnBoundary ==
    LET now == clock
        aggregation == build_timer.aggregation
        step == build_timer.step
        t == get_start_time(now, aggregation, step)
        s == ElapsedSeconds(t, now)
        us == now.microsecond - t.microsecond
    IN  /\ s > 0 \/ (s = 0 /\ us >= 0)
        /\ s < step * UnitSeconds(aggregation)
              \/ (s = step * UnitSeconds(aggregation) /\ us < 0)
        /\ \A i \in DOMAIN FieldsBelow(t, aggregation) : FieldsBelow(t, aggregation)[i] = 0
        /\ UnitField(t, aggregation) % step = 0

====
